---------------------------- MODULE Spec2Model ----------------------------
(***************************************************************************)
(* Model of bdc_stac/controller.py: the query-filter translation of        *)
(* get_collection_items, the role constraint, the property-query filter,   *)
(* the fields parser, the item feature assembly and the electro-optical    *)
(* band summary.                                                           *)
(*                                                                         *)
(* Python strings that the code parses are sequences of tokens (one token  *)
(* stands for one character or one indivisible lexeme); str.split,         *)
(* str.startswith and float() are computed on those sequences.             *)
(***************************************************************************)
EXTENDS Integers, Sequences, FiniteSets, TLC

VARIABLES db, conf, cache, op, args, out

vars == <<db, conf, cache, op, args, out>>

(***************************************************************************)
(* Bounds of the model.                                                    *)
(***************************************************************************)
NItems == 10        \* rows of the items table
MaxTime == 3        \* request timestamps are t0 .. tMaxTime
MaxCoord == 1       \* bbox components are the digits 0 .. MaxCoord
MaxBBoxLen == 5     \* longest bbox component list
MaxPage == 5        \* largest page number requested
MaxLimit == 4       \* largest page size requested

(***************************************************************************)
(* Strings.                                                                *)
(***************************************************************************)
Range(s) == {s[i] : i \in 1..Len(s)}

RECURSIVE SplitFrom(_, _, _, _)
SplitFrom(s, sep, i, cur) ==
    IF i > Len(s) THEN <<cur>>
    ELSE IF s[i] = sep THEN <<cur>> \o SplitFrom(s, sep, i + 1, <<>>)
    ELSE SplitFrom(s, sep, i + 1, Append(cur, s[i]))

\* str.split(sep) for a one-character separator: "".split(",") is [""].
split(s, sep) == SplitFrom(s, sep, 1, <<>>)

startswith(s, prefix) ==
    /\ Len(prefix) <= Len(s)
    /\ SubSeq(s, 1, Len(prefix)) = prefix

endswith(s, suffix) ==
    /\ Len(suffix) <= Len(s)
    /\ SubSeq(s, Len(s) - Len(suffix) + 1, Len(s)) = suffix

contains(s, part) ==
    \E i \in 1..(Len(s) + 1) :
        /\ i + Len(part) - 1 <= Len(s)
        /\ SubSeq(s, i, i + Len(part) - 1) = part

Digits == <<"0", "1", "2", "3", "4", "5", "6", "7", "8", "9">>

IsDigit(tok) == \E d \in 1..Len(Digits) : Digits[d] = tok

DigitVal(tok) == (CHOOSE d \in 1..Len(Digits) : Digits[d] = tok) - 1

RECURSIVE DecimalVal(_, _)
DecimalVal(s, n) ==
    IF n = 0 THEN 0 ELSE 10 * DecimalVal(s, n - 1) + DigitVal(s[n])

\* float(x): a ValueError unless x is a non-empty run of digits.
IsFloat(s) == Len(s) > 0 /\ \A i \in 1..Len(s) : IsDigit(s[i])

float(s) == DecimalVal(s, Len(s))

\* A timestamp literal is one token; the store casts it to a timestamp.
TsTok == <<"t0", "t1", "t2", "t3", "t4", "t5", "t6", "t7">>

IsTimestamp(s) == Len(s) = 1 /\ \E t \in 1..Len(TsTok) : TsTok[t] = s[1]

TimestampVal(s) == (CHOOSE t \in 1..Len(TsTok) : TsTok[t] = s[1]) - 1

(***************************************************************************)
(* Request parameter values: None, a str or a list.                        *)
(***************************************************************************)
None == [t |-> "none", v |-> <<>>]
Str(s) == [t |-> "str", v |-> s]
List(l) == [t |-> "list", v |-> l]

IsNone(p) == p.t = "none"
isinstance_str(p) == p.t = "str"
\* Python truthiness of None, a str or a list.
Truthy(p) == p.t # "none" /\ Len(p.v) > 0

(***************************************************************************)
(* The catalog store (bdc_catalog models), read-only.                      *)
(***************************************************************************)
NullStr == <<"NULL">>
NullNum == -1
NullGeom == <<>>

CollectionIds == 1..4

CollectionTable ==
    [c \in CollectionIds |->
        [id |-> c,
         identifier |-> <<<<"S2-1">>, <<"LC8-1">>, <<"CB4-1">>, <<"MOD-1">>>>[c],
         category |-> <<"eo", "eo", "sar", "eo">>[c],
         is_public |-> c \in {1, 3},
         is_available |-> c \in {1, 2}]]

TileIds == 1..2

TileTable == [t \in TileIds |-> [id |-> t, name |-> <<<<"T1">>, <<"T2">>>>[t]]]

ItemIds == 1..NItems

ItemNames == <<<<"n0">>, <<"n1">>, <<"n2">>, <<"n3">>>>

ItemMeta(i) ==
    IF i % 2 = 0 THEN [k \in {<<"platform">>} |-> <<"p", "1">>]
    ELSE IF i % 3 = 0 THEN [k \in {<<"platform">>} |-> <<"p", "2">>]
    ELSE [k \in {} |-> <<>>]

ItemTable ==
    [i \in ItemIds |->
        [id |-> i,
         name |-> ItemNames[(((i - 1) \div 4) % 4) + 1],
         collection_id |-> ((i - 1) % 4) + 1,
         is_available |-> i % 5 # 0,
         start_date |-> i % 3,
         end_date |-> (i % 3) + (IF i % 5 = 1 THEN 2 ELSE i % 2),
         footprint |-> IF i % 4 = 2 THEN NullGeom
                       ELSE <<i % 2, 0, (i % 2) + 1, 1>>,
         bbox |-> IF i % 4 = 3 THEN NullGeom
                  ELSE <<i % 2, 0, (i % 2) + 2, 2>>,
         tile_id |-> IF i % 3 = 0 THEN 0 ELSE (i % 2) + 1,
         cloud_cover |-> IF i % 4 = 0 THEN NullNum ELSE i % 3,
         metadata_ |-> ItemMeta(i)]]

BandTable ==
    <<[collection_id |-> 1, name |-> <<"B1">>, common_name |-> <<"red">>,
       min_value |-> 0, max_value |-> 9, data_type |-> "int16",
       eo_resolutions |-> List(<<3, 3>>), properties |-> [k \in {} |-> 0]],
      [collection_id |-> 1, name |-> <<"B2">>, common_name |-> <<"nir">>,
       min_value |-> NullNum, max_value |-> NullNum, data_type |-> "int16",
       eo_resolutions |-> List(<<1, 1>>), properties |-> [k \in {"center_wavelength"} |-> 8]],
      [collection_id |-> 2, name |-> <<"B1">>, common_name |-> <<"red">>,
       min_value |-> 0, max_value |-> 9, data_type |-> "uint8",
       eo_resolutions |-> None, properties |-> [k \in {} |-> 0]],
      [collection_id |-> 2, name |-> <<"B2">>, common_name |-> <<"nir">>,
       min_value |-> 0, max_value |-> 9, data_type |-> "uint8",
       eo_resolutions |-> List(<<2, 1>>), properties |-> [k \in {} |-> 0]]>>

\* ItemsProcessors.get_processors(item_id), in stored order.
ProcessorTable ==
    [i \in ItemIds |->
        IF i % 2 = 0 THEN <<>>
        ELSE <<[name |-> <<"L1C">>, facility |-> <<"esa">>, version |-> <<"1">>, level |-> 1],
               [name |-> <<"L2A">>, facility |-> <<"sen2cor">>, version |-> <<"2">>, level |-> 2],
               [name |-> <<"L2B">>, facility |-> <<"esa">>, version |-> <<"3">>, level |-> 2]>>]

\* bdc.quicklook joined to its three bands: collection id -> band names.
QuicklookTable ==
    [c \in {1, 3} |-> <<<<"B2">>, <<"B1">>, <<"B1">>>>]

\* Item.assets: NULL for every third item, else one band file and a thumbnail.
ItemAssetsTable ==
    [i \in ItemIds |->
        IF i % 3 = 0 THEN [t |-> "none", v |-> <<>>]
        ELSE [t |-> "dict",
              v |-> [k \in {<<"B1">>, <<"thumbnail">>} |->
                        [href |-> <<"/", "Repository", "/">> \o k]]]]

Catalog ==
    [collections |-> CollectionTable, items |-> ItemTable, tiles |-> TileTable,
     bands |-> BandTable, processors |-> ProcessorTable, quicklooks |-> QuicklookTable,
     assets |-> ItemAssetsTable]


(***************************************************************************)
(* SQLAlchemy filter expressions, as trees, and their evaluation by the    *)
(* store over one joined row [c: collection, i: item, t: tile name].       *)
(***************************************************************************)
Col(name) == [name |-> name, key |-> <<>>]
\* Item.metadata_[key].astext
MetaText(key) == [name |-> "Item.metadata_.astext", key |-> key]

JoinOn == [k |-> "join"]
IsTrue(col) == [k |-> "is_true", col |-> col]
False == [k |-> "false"]
or_(clauses) == [k |-> "or", args |-> clauses]
and_(clauses) == [k |-> "and", args |-> clauses]
\* getattr(column, method)(value): comparison operators are the same call.
Call(col, method, val) == [k |-> "call", col |-> col, method |-> method, val |-> val]
\* Collection.id.in_(<internal ids>)
IdIn(col, idset) == [k |-> "id_in", col |-> col, ids |-> idset]
ST_GeomFromGeoJSON(box) == [f |-> "ST_GeomFromGeoJSON", box |-> box]
ST_MakeEnvelope(xmin, ymin, xmax, ymax) ==
    [f |-> "ST_MakeEnvelope", box |-> <<xmin, ymin, xmax, ymax>>]
ST_Intersects(geom, field) == [k |-> "ST_Intersects", geom |-> geom, field |-> field]

ComparisonMethods == {"__eq__", "__ne__", "__lt__", "__le__", "__gt__", "__ge__"}
TextMethods == {"startswith", "endswith", "contains"}

ColType(col) ==
    CASE col.name \in {"Item.start_date", "Item.end_date"} -> "timestamp"
      [] col.name \in {"Item.cloud_cover", "Collection.id", "Item.id"} -> "numeric"
      [] OTHER -> "text"

ColVal(row, col) ==
    CASE col.name = "Item.start_date" -> row.i.start_date
      [] col.name = "Item.end_date" -> row.i.end_date
      [] col.name = "Item.cloud_cover" -> row.i.cloud_cover
      [] col.name = "Item.id" -> row.i.id
      [] col.name = "Item.name" -> row.i.name
      [] col.name = "Collection.id" -> row.c.id
      [] col.name = "Collection.identifier" -> row.c.identifier
      [] col.name = "Collection.is_public" -> row.c.is_public
      [] col.name = "Collection.is_available" -> row.c.is_available
      [] col.name = "Item.is_available" -> row.i.is_available
      [] col.name = "Item.footprint" -> row.i.footprint
      [] col.name = "Item.bbox" -> row.i.bbox
      [] col.name = "Tile.name" -> row.t
      [] col.name = "Item.metadata_.astext" ->
            IF col.key \in DOMAIN row.i.metadata_ THEN row.i.metadata_[col.key]
            ELSE NullStr

IsNull(col, v) ==
    CASE ColType(col) = "text" -> v = NullStr
      [] OTHER -> v = NullNum

\* Collation order of text: tokens by their place in Alphabet.
Alphabet == Digits \o <<"T1", "T2", "n0", "n1", "n2", "n3", "p", "q">>

Rank(tok) ==
    IF \E r \in 1..Len(Alphabet) : Alphabet[r] = tok
    THEN CHOOSE r \in 1..Len(Alphabet) : Alphabet[r] = tok
    ELSE 0

RECURSIVE TextLess(_, _, _)
TextLess(a, b, n) ==
    IF n > Len(b) THEN FALSE
    ELSE IF n > Len(a) THEN TRUE
    ELSE IF Rank(a[n]) # Rank(b[n]) THEN Rank(a[n]) < Rank(b[n])
    ELSE TextLess(a, b, n + 1)

NumCompare(method, v, x) ==
    CASE method = "__eq__" -> v = x
      [] method = "__ne__" -> v # x
      [] method = "__lt__" -> v < x
      [] method = "__le__" -> v <= x
      [] method = "__gt__" -> v > x
      [] method = "__ge__" -> v >= x

TextCompare(method, v, x) ==
    CASE method = "__eq__" -> v = x
      [] method = "__ne__" -> v # x
      [] method = "__lt__" -> TextLess(v, x, 1)
      [] method = "__le__" -> v = x \/ TextLess(v, x, 1)
      [] method = "__gt__" -> TextLess(x, v, 1)
      [] method = "__ge__" -> v = x \/ TextLess(x, v, 1)
      [] method = "startswith" -> startswith(v, x)
      [] method = "endswith" -> endswith(v, x)
      [] method = "contains" -> contains(v, x)
      [] method = "like" -> x = <<"%">> \/ v = x

Literal(col, s) ==
    CASE ColType(col) = "timestamp" -> TimestampVal(s)
      [] ColType(col) = "numeric" -> float(s)
      [] OTHER -> s

LiteralOk(col, s) ==
    CASE ColType(col) = "timestamp" -> IsTimestamp(s)
      [] ColType(col) = "numeric" -> IsFloat(s)
      [] OTHER -> TRUE

\* Whether the store accepts the call; else the statement fails (DataError).
CallOk(e) ==
    IF e.method = "in_"
    THEN e.val.t = "list" /\ \A n \in 1..Len(e.val.v) : LiteralOk(e.col, e.val.v[n])
    ELSE /\ e.val.t = "str"
         /\ LiteralOk(e.col, e.val.v)
         /\ (ColType(e.col) # "text" => e.method \in ComparisonMethods)

EvalCall(e, row) ==
    LET v == ColVal(row, e.col) IN
    IF IsNull(e.col, v) THEN FALSE
    ELSE IF e.method = "in_"
         THEN \E n \in 1..Len(e.val.v) : v = Literal(e.col, e.val.v[n])
         ELSE IF ColType(e.col) = "text"
              THEN TextCompare(e.method, v, e.val.v)
              ELSE NumCompare(e.method, v, Literal(e.col, e.val.v))

Min2(a, b) == IF a <= b THEN a ELSE b
Max2(a, b) == IF a >= b THEN a ELSE b

\* Two axis-aligned boxes <<x1, y1, x2, y2>> share a point.
BoxesIntersect(a, b) ==
    /\ Min2(a[1], a[3]) <= Max2(b[1], b[3])
    /\ Min2(b[1], b[3]) <= Max2(a[1], a[3])
    /\ Min2(a[2], a[4]) <= Max2(b[2], b[4])
    /\ Min2(b[2], b[4]) <= Max2(a[2], a[4])

RECURSIVE WellTyped(_)
WellTyped(e) ==
    CASE e.k \in {"or", "and"} -> \A n \in 1..Len(e.args) : WellTyped(e.args[n])
      [] e.k = "call" -> CallOk(e)
      [] OTHER -> TRUE

RECURSIVE Eval(_, _)
Eval(e, row) ==
    CASE e.k = "join" -> row.c.id = row.i.collection_id
      [] e.k = "is_true" -> ColVal(row, e.col)
      [] e.k = "false" -> FALSE
      [] e.k = "or" -> \E n \in 1..Len(e.args) : Eval(e.args[n], row)
      [] e.k = "and" -> \A n \in 1..Len(e.args) : Eval(e.args[n], row)
      [] e.k = "call" -> EvalCall(e, row)
      [] e.k = "id_in" -> ColVal(row, e.col) \in e.ids
      [] e.k = "ST_Intersects" ->
            LET g == ColVal(row, e.field) IN
            g # NullGeom /\ BoxesIntersect(e.geom.box, g)

(***************************************************************************)
(* _add_roles_constraint                                                   *)
(***************************************************************************)
StarRole == <<"*">>

add_roles_constraint(roles) ==
    LET where == IF StarRole \notin Range(roles)
                 THEN <<IF Len(roles) > 0
                        THEN Call(Col("Collection.identifier"), "in_", List(roles))
                        ELSE False>>
                 ELSE <<>>
    IN or_(<<IsTrue(Col("Collection.is_public"))>> \o where)


(***************************************************************************)
(* create_query_filter.  A query is a dict  column -> {op -> value}, kept  *)
(* as the sequence of its entries in iteration order.                      *)
(***************************************************************************)
MappingOps == {"eq", "neq", "lt", "lte", "gt", "gte", "startsWith", "endsWith",
               "contains", "in"}

mapping ==
    [o \in MappingOps |->
        CASE o = "eq" -> "__eq__"
          [] o = "neq" -> "__ne__"
          [] o = "lt" -> "__lt__"
          [] o = "lte" -> "__le__"
          [] o = "gt" -> "__gt__"
          [] o = "gte" -> "__ge__"
          [] o = "startsWith" -> "startswith"
          [] o = "endsWith" -> "endswith"
          [] o = "contains" -> "contains"
          [] o = "in" -> "in_"]

BdcPropertyNames == {<<"bdc:tile">>, <<"bdc:tiles">>, <<"eo:cloud_cover">>}

bdc_properties ==
    [c \in BdcPropertyNames |->
        IF c = <<"eo:cloud_cover">> THEN Col("Item.cloud_cover") ELSE Col("Tile.name")]

\* One (column, op, value) of the nested loops, in loop order.
RECURSIVE QueryPairs(_, _, _)
QueryPairs(query, c, o) ==
    IF c > Len(query) THEN <<>>
    ELSE IF o > Len(query[c].filters) THEN QueryPairs(query, c + 1, 1)
    ELSE <<[column |-> query[c].column,
            op |-> query[c].filters[o].op,
            value |-> query[c].filters[o].value]>>
         \o QueryPairs(query, c, o + 1)

query_filter_column(column) ==
    IF column \in DOMAIN bdc_properties THEN bdc_properties[column]
    ELSE MetaText(column)

create_query_filter(query) ==
    LET pairs == QueryPairs(query, 1, 1) IN
    IF \E n \in 1..Len(pairs) : pairs[n].op \notin DOMAIN mapping
    THEN [status |-> "KeyError", filters |-> <<>>]
    ELSE [status |-> "ok",
          filters |-> [n \in 1..Len(pairs) |->
                          Call(query_filter_column(pairs[n].column),
                               mapping[pairs[n].op], pairs[n].value)]]

(***************************************************************************)
(* get_collection_items: the where list.                                   *)
(***************************************************************************)
BDC_STAC_MAX_LIMIT == 3

Ok(where) == [status |-> "ok", where |-> where]
Raise(status) == [status |-> status, where |-> <<>>]

geom_field(use_footprint) ==
    IF use_footprint THEN Col("Item.footprint") ELSE Col("Item.bbox")

base_where(roles) ==
    <<JoinOn,
      IsTrue(Col("Collection.is_available")),
      IsTrue(Col("Item.is_available")),
      add_roles_constraint(roles)>>

\* lines 150-157: the identifier list is resolved to internal ids by a lookup.
collections_filter(a, store) ==
    LET collections == IF Truthy(a.collection_id) THEN List(<<a.collection_id.v>>)
                       ELSE a.collections
    IN IF Truthy(collections)
       THEN LET names == IF isinstance_str(collections)
                         THEN split(collections.v, ",") ELSE collections.v
                rows == {c \in DOMAIN store.collections :
                            store.collections[c].identifier \in Range(names)}
            IN <<IdIn(Col("Collection.id"), rows)>>
       ELSE <<>>

item_id_filter(a) ==
    IF ~IsNone(a.item_id) THEN <<Call(Col("Item.name"), "like", a.item_id)>> ELSE <<>>

\* lines 166-186
spatial_filter(a, use_footprint) ==
    IF ~IsNone(a.intersects)
    THEN Ok(<<ST_Intersects(ST_GeomFromGeoJSON(a.intersects.v), geom_field(use_footprint))>>)
    ELSE IF ~IsNone(a.bbox)
    THEN LET parts == IF isinstance_str(a.bbox) THEN split(a.bbox.v, ",") ELSE a.bbox.v
             n == Len(parts)
             bbox == [x \in 1..n |-> float(parts[x])]
         IN IF \E x \in 1..n : ~IsFloat(parts[x]) THEN Raise("400")   \* ValueError
            ELSE IF n < 3 THEN Raise("IndexError")                     \* bbox[2]
            ELSE IF bbox[1] = bbox[3] THEN Raise("400")                \* InvalidBoundingBoxError
            ELSE IF n < 4 THEN Raise("IndexError")                     \* bbox[3]
            ELSE IF bbox[2] = bbox[4] THEN Raise("400")                \* InvalidBoundingBoxError
            ELSE Ok(<<ST_Intersects(ST_MakeEnvelope(bbox[1], bbox[2], bbox[3], bbox[4]),
                                    geom_field(use_footprint))>>)
    ELSE Ok(<<>>)

matches_open == {<<"..">>, <<>>}
\* Slip: the closed range forgets the items that span the whole range.
date_filter_no_span(datetime) ==
    IF "/" \in Range(datetime)
    THEN LET parts == split(datetime, "/") IN
         IF Len(parts) # 2 THEN Raise("ValueError")
         ELSE LET time_start == parts[1]
                  time_end == parts[2]
              IN IF time_start \in matches_open
                 THEN Ok(<<or_(<<Call(Col("Item.start_date"), "__le__", Str(time_end)),
                                 Call(Col("Item.end_date"), "__le__", Str(time_end))>>)>>)
                 ELSE IF time_end \in matches_open
                 THEN Ok(<<or_(<<Call(Col("Item.start_date"), "__ge__", Str(time_start)),
                                 Call(Col("Item.end_date"), "__ge__", Str(time_start))>>)>>)
                 ELSE Ok(<<or_(<<
                        and_(<<Call(Col("Item.start_date"), "__ge__", Str(time_start)),
                               Call(Col("Item.start_date"), "__le__", Str(time_end))>>),
                        and_(<<Call(Col("Item.end_date"), "__ge__", Str(time_start)),
                               Call(Col("Item.end_date"), "__le__", Str(time_end))>>)>>)>>)
    ELSE Ok(<<and_(<<Call(Col("Item.start_date"), "__le__", Str(datetime)),
                     Call(Col("Item.end_date"), "__ge__", Str(datetime))>>)>>)

\* Slip: an open range tests the far bound of the item only.
date_filter_open_far_bound(datetime) ==
    IF "/" \in Range(datetime)
    THEN LET parts == split(datetime, "/") IN
         IF Len(parts) # 2 THEN Raise("ValueError")
         ELSE LET time_start == parts[1]
                  time_end == parts[2]
              IN IF time_start \in matches_open
                 THEN Ok(<<Call(Col("Item.end_date"), "__le__", Str(time_end))>>)
                 ELSE IF time_end \in matches_open
                 THEN Ok(<<Call(Col("Item.start_date"), "__ge__", Str(time_start))>>)
                 ELSE Ok(<<or_(<<
                        and_(<<Call(Col("Item.start_date"), "__ge__", Str(time_start)),
                               Call(Col("Item.start_date"), "__le__", Str(time_end))>>),
                        and_(<<Call(Col("Item.end_date"), "__ge__", Str(time_start)),
                               Call(Col("Item.end_date"), "__le__", Str(time_end))>>),
                        and_(<<Call(Col("Item.start_date"), "__lt__", Str(time_start)),
                               Call(Col("Item.end_date"), "__gt__", Str(time_end))>>)>>)>>)
    ELSE Ok(<<and_(<<Call(Col("Item.start_date"), "__le__", Str(datetime)),
                     Call(Col("Item.end_date"), "__ge__", Str(datetime))>>)>>)

\* lines 188-207
date_filter(datetime) ==
    IF "/" \in Range(datetime)
    THEN LET parts == split(datetime, "/") IN
         IF Len(parts) # 2 THEN Raise("ValueError")     \* unpacking into two names
         ELSE LET time_start == parts[1]
                  time_end == parts[2]
              IN IF time_start \in matches_open
                 THEN Ok(<<or_(<<Call(Col("Item.start_date"), "__le__", Str(time_end)),
                                 Call(Col("Item.end_date"), "__le__", Str(time_end))>>)>>)
                 ELSE IF time_end \in matches_open
                 THEN Ok(<<or_(<<Call(Col("Item.start_date"), "__ge__", Str(time_start)),
                                 Call(Col("Item.end_date"), "__ge__", Str(time_start))>>)>>)
                 ELSE Ok(<<or_(<<
                        and_(<<Call(Col("Item.start_date"), "__ge__", Str(time_start)),
                               Call(Col("Item.start_date"), "__le__", Str(time_end))>>),
                        and_(<<Call(Col("Item.end_date"), "__ge__", Str(time_start)),
                               Call(Col("Item.end_date"), "__le__", Str(time_end))>>),
                        and_(<<Call(Col("Item.start_date"), "__lt__", Str(time_start)),
                               Call(Col("Item.end_date"), "__gt__", Str(time_end))>>)>>)>>)
    ELSE Ok(<<and_(<<Call(Col("Item.start_date"), "__le__", Str(datetime)),
                     Call(Col("Item.end_date"), "__ge__", Str(datetime))>>)>>)

ids_list(ids) == IF isinstance_str(ids) THEN split(ids.v, ",") ELSE ids.v
\* Slip: the exclusiveness check is left out and collection_id silently wins.
filters_without_ids_unchecked(a, store, use_footprint) ==
    LET cf == collections_filter(a, store)
        nf == item_id_filter(a)
        qf == IF Truthy(a.query) THEN create_query_filter(a.query.v)
              ELSE [status |-> "ok", filters |-> <<>>]
        sf == spatial_filter(a, use_footprint)
        df == IF ~IsNone(a.datetime) THEN date_filter(a.datetime.v) ELSE Ok(<<>>)
    IN IF qf.status # "ok" THEN Raise(qf.status)
       ELSE IF sf.status # "ok" THEN Raise(sf.status)
       ELSE IF df.status # "ok" THEN Raise(df.status)
       ELSE Ok(cf \o nf \o qf.filters \o sf.where \o df.where)

\* lines 147-207: the branch taken when ids is None.
filters_without_ids(a, store, use_footprint) ==
    IF Truthy(a.collection_id) /\ Truthy(a.collections) THEN Raise("400")
    ELSE LET cf == collections_filter(a, store)
             nf == item_id_filter(a)
             qf == IF Truthy(a.query) THEN create_query_filter(a.query.v)
                   ELSE [status |-> "ok", filters |-> <<>>]
             sf == spatial_filter(a, use_footprint)
             df == IF ~IsNone(a.datetime) THEN date_filter(a.datetime.v) ELSE Ok(<<>>)
         IN IF qf.status # "ok" THEN Raise(qf.status)
            ELSE IF sf.status # "ok" THEN Raise(sf.status)
            ELSE IF df.status # "ok" THEN Raise(df.status)
            ELSE Ok(cf \o nf \o qf.filters \o sf.where \o df.where)
\* Slip: the collection restriction is applied on the ids branch too.
build_where_ids_restricted(a, store, use_footprint) ==
    LET roles == IF IsNone(a.roles) THEN <<>> ELSE a.roles.v IN
    IF ~IsNone(a.ids)
    THEN Ok(base_where(roles) \o collections_filter(a, store)
            \o <<Call(Col("Item.name"), "in_", List(ids_list(a.ids)))>>)
    ELSE LET f == filters_without_ids(a, store, use_footprint) IN
         IF f.status # "ok" THEN f ELSE Ok(base_where(roles) \o f.where)

\* lines 131-207
build_where(a, store, use_footprint) ==
    LET roles == IF IsNone(a.roles) THEN <<>> ELSE a.roles.v IN
    IF ~IsNone(a.ids)
    THEN Ok(base_where(roles) \o <<Call(Col("Item.name"), "in_", List(ids_list(a.ids)))>>)
    ELSE LET f == filters_without_ids(a, store, use_footprint) IN
         IF f.status # "ok" THEN f ELSE Ok(base_where(roles) \o f.where)


(***************************************************************************)
(* get_collection_items: running the query (lines 208-215).                *)
(***************************************************************************)
JoinedRow(store, c, i) ==
    [c |-> store.collections[c],
     i |-> store.items[i],
     t |-> IF store.items[i].tile_id \in DOMAIN store.tiles
           THEN store.tiles[store.items[i].tile_id].name
           ELSE NullStr]

\* The items selected by filter(*where) over Collection x Item (outer join Tile).
Selected(where, store) ==
    {i \in DOMAIN store.items :
        \E c \in DOMAIN store.collections :
            \A n \in 1..Len(where) : Eval(where[n], JoinedRow(store, c, i))}

\* order_by(Item.start_date.desc(), Item.id)
OrderedBefore(store, i, j) ==
    \/ store.items[i].start_date > store.items[j].start_date
    \/ /\ store.items[i].start_date = store.items[j].start_date
       /\ store.items[i].id < store.items[j].id

RECURSIVE order_by(_, _)
order_by(S, store) ==
    IF S = {} THEN <<>>
    ELSE LET first == CHOOSE i \in S : \A j \in S \ {i} : OrderedBefore(store, i, j)
         IN <<first>> \o order_by(S \ {first}, store)
\* Slip: the configured maximum is not applied to the requested page size.
paginate_unclamped(rows, page, per_page, max_per_page) ==
    LET pg == IF page < 1 THEN 1 ELSE page
        pp == IF per_page < 0 THEN 20 ELSE per_page
        lo == (pg - 1) * pp + 1
        hi == Min2(pg * pp, Len(rows))
    IN [items |-> IF lo > hi THEN <<>> ELSE SubSeq(rows, lo, hi),
        page |-> pg, per_page |-> pp, total |-> Len(rows)]

\* Query.paginate(page, per_page, error_out=False, max_per_page)
paginate(rows, page, per_page, max_per_page) ==
    LET capped == Min2(per_page, max_per_page)
        pg == IF page < 1 THEN 1 ELSE page
        pp == IF capped < 0 THEN 20 ELSE capped
        lo == (pg - 1) * pp + 1
        hi == Min2(pg * pp, Len(rows))
    IN [items |-> IF lo > hi THEN <<>> ELSE SubSeq(rows, lo, hi),
        page |-> pg, per_page |-> pp, total |-> Len(rows)]

\* The identifier lookup of line 156 is sent before the later validations.
lookup_sent(a) ==
    /\ IsNone(a.ids)
    /\ ~(Truthy(a.collection_id) /\ Truthy(a.collections))
    /\ (Truthy(a.collection_id) \/ Truthy(a.collections))

get_collection_items(a, store, cf) ==
    LET w == build_where(a, store, cf.use_footprint)
        assets_column == <<"assets">> \notin Range(a.exclude)
        lookup == IF lookup_sent(a) THEN <<"collections">> ELSE <<>>
        none == [items |-> <<>>, page |-> 0, per_page |-> 0, total |-> 0]
    IN IF w.status # "ok"
       THEN [status |-> w.status, where |-> <<>>, assets_column |-> assets_column,
             queries |-> lookup, result |-> none]
       ELSE IF \E n \in 1..Len(w.where) : ~WellTyped(w.where[n])
       THEN [status |-> "DataError", where |-> w.where, assets_column |-> assets_column,
             queries |-> lookup \o <<"items">>, result |-> none]
       ELSE [status |-> "ok", where |-> w.where, assets_column |-> assets_column,
             queries |-> lookup \o <<"items">>,
             result |-> paginate(order_by(Selected(w.where, store), store),
                                 a.page, a.limit, BDC_STAC_MAX_LIMIT)]

(***************************************************************************)
(* Requests to get_collection_items.                                       *)
(***************************************************************************)
DefaultRequest ==
    [collection_id |-> None, roles |-> None, item_id |-> None, bbox |-> None,
     datetime |-> None, ids |-> None, collections |-> None, intersects |-> None,
     page |-> 1, limit |-> 10, query |-> None, exclude |-> <<>>]

Dict(entries) == [t |-> "dict", v |-> entries]

RECURSIVE JoinWith(_, _)
JoinWith(parts, sep) ==
    IF Len(parts) = 0 THEN <<>>
    ELSE IF Len(parts) = 1 THEN parts[1]
    ELSE parts[1] \o <<sep>> \o JoinWith(Tail(parts), sep)

SeqsUpTo(S, n) == {<<>>} \cup UNION {[1..k -> S] : k \in 1..n}

SomeQueries ==
    {None,
     Dict(<<[column |-> <<"eo:cloud_cover">>,
             filters |-> <<[op |-> "lte", value |-> Str(<<"1">>)]>>]>>),
     Dict(<<[column |-> <<"platform">>,
             filters |-> <<[op |-> "regex", value |-> Str(<<"p">>)]>>]>>)}

SomeBBoxes ==
    {None, Str(<<"0", ",", "0", ",", "1", ",", "1">>), List(<<<<"0">>, <<"1">>>>)}

SomeDatetimes == {None, Str(<<"t1", "/", "t2">>), Str(<<"t1", "/", "t2", "/", "t3">>)}

SomeRoles == {None, List(<<<<"LC8-1">>>>), List(<<StarRole>>)}

CoarseRequests ==
    {[DefaultRequest EXCEPT !.collection_id = ci, !.collections = cs, !.ids = ids,
                            !.item_id = it, !.bbox = bb, !.datetime = dt,
                            !.intersects = ins, !.query = q, !.roles = r] :
        ci \in {None, Str(<<"LC8-1">>)},
        cs \in {None, List(<<<<"S2-1">>, <<"LC8-1">>>>), Str(<<"S2-1", ",", "XX">>)},
        ids \in {None, List(<<<<"n0">>>>), Str(<<"n0", ",", "n2">>)},
        it \in {None, Str(<<"n1">>)},
        bb \in SomeBBoxes,
        dt \in SomeDatetimes,
        ins \in {None, Dict(<<1, 1, 2, 2>>)},
        q \in SomeQueries,
        r \in SomeRoles}

EmptyRequests ==
    {[DefaultRequest EXCEPT !.collection_id = ci, !.collections = cs, !.ids = ids,
                            !.query = q, !.roles = List(<<StarRole>>)] :
        ci \in {None, Str(<<>>), Str(<<"S2-1">>)},
        cs \in {None, List(<<>>), Str(<<>>), List(<<<<"S2-1">>>>)},
        ids \in {None, List(<<>>), Str(<<>>)},
        q \in {None, Dict(<<>>)}}

CoordTokens == {Digits[d] : d \in 1..(MaxCoord + 1)} \cup {"x"}

BBoxRequests ==
    {[DefaultRequest EXCEPT !.bbox = bb, !.roles = List(<<StarRole>>)] :
        bb \in UNION {{List(l), Str(JoinWith(l, ","))} :
                        l \in SeqsUpTo({<<tok>> : tok \in CoordTokens}, MaxBBoxLen)}}

DatetimeTokens == {"/", ".."} \cup {TsTok[t] : t \in 1..(MaxTime + 1)}

DatetimeRequests ==
    {[DefaultRequest EXCEPT !.datetime = Str(dt), !.roles = List(<<StarRole>>)] :
        dt \in SeqsUpTo(DatetimeTokens, 3)}

PageRequests ==
    {[DefaultRequest EXCEPT !.page = pg, !.limit = lim, !.roles = r, !.ids = ids,
                            !.exclude = ex] :
        pg \in 0..MaxPage,
        lim \in (-1)..MaxLimit,
        r \in {None, List(<<<<"LC8-1">>>>)},
        ids \in {None, List(<<<<"n0">>, <<"n1">>>>)},
        ex \in {<<>>, <<<<"assets">>>>}}

RoleNames == {<<"S2-1">>, <<"LC8-1">>, <<"MOD-1">>, StarRole, <<"zz">>}

RoleLists == SeqsUpTo(RoleNames, 2)

RoleRequests ==
    {[DefaultRequest EXCEPT !.roles = List(r), !.ids = ids, !.collections = cs] :
        r \in RoleLists,
        ids \in {None, List(<<<<"n0">>, <<"n2">>>>)},
        cs \in {None, List(<<<<"LC8-1">>, <<"MOD-1">>>>)}}

ItemRequests ==
    CoarseRequests \cup EmptyRequests \cup BBoxRequests \cup DatetimeRequests
        \cup PageRequests \cup RoleRequests

(***************************************************************************)
(* functools.lru_cache: entries [key, value], most recently used first.    *)
(***************************************************************************)
LRU_MAXSIZE == 128

\* The three memoized functions of the module, nothing cached yet.
EmptyCache == [eo |-> <<>>, quicklook |-> <<>>, crs |-> <<>>]

lru_hit(entries, key) == \E n \in 1..Len(entries) : entries[n].key = key

\* Slip: the cache is never trimmed (maxsize=None).
lru_call_unbounded(entries, key, computed) ==
    IF lru_hit(entries, key)
    THEN LET n == CHOOSE n \in 1..Len(entries) : entries[n].key = key
         IN [value |-> entries[n].value,
             hit |-> TRUE,
             entries |-> <<entries[n]>> \o SubSeq(entries, 1, n - 1)
                         \o SubSeq(entries, n + 1, Len(entries))]
    ELSE [value |-> computed, hit |-> FALSE,
          entries |-> <<[key |-> key, value |-> computed]>> \o entries]

\* The cached call: value is the stored value on a hit, else the computed one.
lru_call(entries, key, computed) ==
    IF lru_hit(entries, key)
    THEN LET n == CHOOSE n \in 1..Len(entries) : entries[n].key = key
         IN [value |-> entries[n].value,
             hit |-> TRUE,
             entries |-> <<entries[n]>> \o SubSeq(entries, 1, n - 1)
                         \o SubSeq(entries, n + 1, Len(entries))]
    ELSE LET grown == <<[key |-> key, value |-> computed]>> \o entries
         IN [value |-> computed,
             hit |-> FALSE,
             entries |-> IF Len(grown) > LRU_MAXSIZE
                         THEN SubSeq(grown, 1, LRU_MAXSIZE) ELSE grown]

(***************************************************************************)
(* get_collection_eo                                                       *)
(***************************************************************************)
\* dict.update
Update(d, e) ==
    [k \in DOMAIN d \cup DOMAIN e |-> IF k \in DOMAIN e THEN e[k] ELSE d[k]]

\* Band.query().filter(Band.collection_id == collection_id)
BandsOf(store, collection_id) ==
    SelectSeq(store.bands, LAMBDA b : b.collection_id = collection_id)

\* float(x) if x is not None else None, on a stored number.
float_or_none(x) == IF x = NullNum THEN NullNum ELSE x

band_meta(band) ==
    Update([k \in {"name", "common_name", "min", "max", "data_type"} |->
                CASE k = "name" -> band.name
                  [] k = "common_name" -> band.common_name
                  [] k = "min" -> float_or_none(band.min_value)
                  [] k = "max" -> float_or_none(band.max_value)
                  [] k = "data_type" -> band.data_type],
           band.properties)

\* Slip: the last resolution entry is taken instead of the first.
eo_step_last_entry(acc, band) ==
    IF IsNone(band.eo_resolutions) THEN acc
    ELSE [eo_gsd |-> IF band.eo_resolutions.v[Len(band.eo_resolutions.v)] > acc.eo_gsd
                     THEN band.eo_resolutions.v[Len(band.eo_resolutions.v)]
                     ELSE acc.eo_gsd,
          eo_bands |-> Append(acc.eo_bands, band_meta(band))]

\* One pass of the loop of lines 235-255.
eo_step(acc, band) ==
    IF IsNone(band.eo_resolutions) THEN acc          \* warning, continue
    ELSE [eo_gsd |-> IF band.eo_resolutions.v[1] > acc.eo_gsd
                     THEN band.eo_resolutions.v[1] ELSE acc.eo_gsd,
          eo_bands |-> Append(acc.eo_bands, band_meta(band))]

RECURSIVE eo_loop(_, _)
eo_loop(bands, n) ==
    IF n = 0 THEN [eo_gsd |-> 0, eo_bands |-> <<>>]
    ELSE eo_step(eo_loop(bands, n - 1), bands[n])

\* The body of get_collection_eo (what the cache stores for a key).
collection_eo(store, collection_id) ==
    LET bands == BandsOf(store, collection_id) IN eo_loop(bands, Len(bands))

(***************************************************************************)
(* get_collection_quicklook and get_collection_crs (what the cache stores  *)
(* for a key).  A Collection object is [oid, row]: oid is its identity,    *)
(* which is what an object without __eq__/__hash__ is hashed by.           *)
(***************************************************************************)
collection_quicklook(store, collection_id) ==
    IF collection_id \in DOMAIN store.quicklooks
    THEN List(store.quicklooks[collection_id])
    ELSE None

collection_crs(collection) ==
    IF ~IsNone(collection.row.grs) THEN collection.row.grs.v.crs
    ELSE IF ~IsNone(collection.row.properties)
    THEN (IF <<"bdc:", "crs">> \in DOMAIN collection.row.properties.v
          THEN collection.row.properties.v[<<"bdc:", "crs">>] ELSE NullStr)
    ELSE NullStr

(***************************************************************************)
(* get_catalog                                                             *)
(***************************************************************************)
SelectedCollections(where, store) ==
    {c \in DOMAIN store.collections :
        \A n \in 1..Len(where) :
            Eval(where[n], [c |-> store.collections[c], i |-> store.items[1], t |-> NullStr])}

get_catalog(roles_arg, store) ==
    LET roles == IF ~Truthy(roles_arg) THEN <<>> ELSE roles_arg.v
        where == <<IsTrue(Col("Collection.is_available")), add_roles_constraint(roles)>>
    IN [status |-> "ok", where |-> where, rows |-> SelectedCollections(where, store)]

(***************************************************************************)
(* parse_fields_parameter.  An exclude entry is [name, path]: a bare name  *)
(* has the empty path, a dotted one is the pair (name, path).              *)
(***************************************************************************)
fields_exclude_entry(field) ==
    LET splitter == split(field, ".")
        left == Tail(splitter[1])
    IN IF Len(splitter) > 1
       THEN [name |-> left, dotted |-> TRUE, path |-> Tail(splitter)]
       ELSE [name |-> left, dotted |-> FALSE, path |-> <<>>]

RECURSIVE fields_loop(_, _)
fields_loop(fields, n) ==
    IF n = 0 THEN [include |-> <<>>, exclude |-> <<>>]
    ELSE LET acc == fields_loop(fields, n - 1)
             field == fields[n]
         IN IF startswith(field, <<"-">>)
            THEN [acc EXCEPT !.exclude = Append(@, fields_exclude_entry(field))]
            ELSE [acc EXCEPT !.include = Append(@, field)]

parse_fields_parameter(fields) ==
    IF IsNone(fields) THEN [include |-> <<>>, exclude |-> <<>>]
    ELSE LET parts == split(fields.v, ",") IN fields_loop(parts, Len(parts))

(***************************************************************************)
(* URLs: [scheme, netloc, path..., query].  A path is "/" and name tokens. *)
(***************************************************************************)
Schemes == {"http:", "s3:"}
Netlocs == {"//localhost:5001", "//localhost:5005", "//cdn", "//bucket"}

BDC_STAC_BASE_URL == <<"http:", "//localhost:5005">>
BDC_STAC_FILE_ROOT == <<"http:", "//localhost:5001">>

\* The directory of a base path: up to and including its last "/".
RECURSIVE DirOf(_)
DirOf(path) ==
    IF path = <<>> THEN <<"/">>
    ELSE IF path[Len(path)] = "/" THEN path
    ELSE DirOf(SubSeq(path, 1, Len(path) - 1))

\* urllib.parse.urljoin(base, url)
urljoin(base, url) ==
    IF base = <<>> THEN url
    ELSE IF url = <<>> THEN base
    ELSE IF url[1] \in Schemes THEN url
    ELSE IF url[1] \in Netlocs THEN <<base[1]>> \o url
    ELSE IF url[1] = "/" THEN SubSeq(base, 1, 2) \o url
    ELSE SubSeq(base, 1, 2) \o DirOf(SubSeq(base, 3, Len(base))) \o url

RECURSIVE rstrip(_, _)
rstrip(s, ch) ==
    IF s # <<>> /\ s[Len(s)] = ch THEN rstrip(SubSeq(s, 1, Len(s) - 1), ch) ELSE s

\* request.headers.get(name, default)
header_get(headers, name, default) ==
    IF name \in DOMAIN headers THEN headers[name] ELSE default

resolve_base_file_root_url(headers) ==
    header_get(headers, "X-Script-Name", BDC_STAC_FILE_ROOT)

resolve_stac_url(headers) ==
    rstrip(header_get(headers, "X-Stac-Url", BDC_STAC_BASE_URL), "/")

\* Slip: the file root is kept whatever the item metadata holds.
resolve_item_file_root_always(ctx, headers) == resolve_base_file_root_url(headers)

\* _resolve_item_file_root(ctx)(): the base the asset hrefs are joined to.
resolve_item_file_root(ctx, headers) ==
    IF /\ ~IsNone(ctx.item_meta)
       /\ \E prop \in DOMAIN ctx.item_meta.v : startswith(prop, <<"storage:">>)
    THEN <<>>
    ELSE resolve_base_file_root_url(headers)

(***************************************************************************)
(* get_stac_extensions (bdc_stac/config.py): the registry of extensions.   *)
(***************************************************************************)
ExtensionNames ==
    {"version", "processing", "item-assets", "datacube", "eo", "sar", "storage"}

get_stac_extensions(names) == SelectSeq(names, LAMBDA n : n \in ExtensionNames)

(***************************************************************************)
(* get_item_processors                                                     *)
(***************************************************************************)
RECURSIVE processors_root(_, _)
processors_root(processors, n) ==
    IF n = 1 THEN processors[1]
    ELSE LET root == processors_root(processors, n - 1)
         IN IF processors[n].level > root.level THEN processors[n] ELSE root

get_item_processors(store, item_id) ==
    LET processors == store.processors[item_id] IN
    IF processors = <<>> THEN [k \in {} |-> <<>>]
    ELSE LET proc_root == processors_root(processors, Len(processors))
             facilities == {processors[n].facility : n \in 1..Len(processors)}
             software == [f \in facilities |->
                            LET last == CHOOSE n \in 1..Len(processors) :
                                    /\ processors[n].facility = f
                                    /\ \A m \in (n + 1)..Len(processors) :
                                            processors[m].facility # f
                            IN processors[last].version]
         IN [k \in {<<"processing:", "lineage">>, <<"processing:", "facility">>,
                    <<"processing:", "level">>, <<"processing:", "software">>} |->
                CASE k = <<"processing:", "lineage">> -> proc_root.name
                  [] k = <<"processing:", "facility">> -> proc_root.facility
                  [] k = <<"processing:", "level">> -> proc_root.level
                  [] k = <<"processing:", "software">> -> software]

(***************************************************************************)
(* make_geojson                                                            *)
(***************************************************************************)
\* strftime(DATETIME_RFC339)
strftime(t) == <<TsTok[t + 1]>>

feature_links(i, stac_url, assets_kwargs) ==
    <<[rel |-> "self",
       href |-> stac_url \o <<"/", "collections", "/">> \o i.collection
                \o <<"/", "items", "/">> \o i.item \o assets_kwargs],
      [rel |-> "parent",
       href |-> stac_url \o <<"/", "collections", "/">> \o i.collection \o assets_kwargs],
      [rel |-> "collection",
       href |-> stac_url \o <<"/", "collections", "/">> \o i.collection \o assets_kwargs],
      [rel |-> "root", href |-> stac_url \o <<"/">>]>>

\* lines 552-568
feature_properties(i, processors) ==
    LET dates == [k \in {<<"datetime">>, <<"start_datetime">>, <<"end_datetime">>,
                         <<"created">>, <<"updated">>} |->
                    CASE k = <<"end_datetime">> -> strftime(i.end)
                      [] k = <<"created">> -> strftime(i.created)
                      [] k = <<"updated">> -> strftime(i.updated)
                      [] OTHER -> strftime(i.start)]
        meta == IF IsNone(i.item_meta) THEN [k \in {} |-> <<>>] ELSE i.item_meta.v
        merged == Update(Update(dates, meta), processors)
        tiled == IF i.tile # NullStr
                 THEN Update(merged, [k \in {<<"bdc:", "tiles">>} |-> <<i.tile>>])
                 ELSE merged
    IN IF i.category = "eo"
       THEN Update(tiled, [k \in {<<"eo:", "cloud_cover">>} |-> i.cloud_cover])
       ELSE tiled

\* lines 571-577: one asset, its href rewritten.
feature_asset(i, key, bands, base, assets_kwargs) ==
    [href |-> urljoin(base, i.assets.v[key].href \o assets_kwargs),
     eo_bands |-> LET same == SelectSeq(bands.eo_bands, LAMBDA band : band["name"] = key)
                  IN IF i.category = "eo" /\ same # <<>>
                     THEN <<same[Len(same)]>>     \* the last match overwrites
                     ELSE <<>>]

\* dict.get(key) is truthy
GetTruthy(d, key) == key \in DOMAIN d /\ d[key] # <<>>

\* feature.pop(key, None) for every key of exclude
pop_excluded(feature, exclude) ==
    LET gone == {k \in DOMAIN feature : \E n \in 1..Len(exclude) : exclude[n].name = <<k>>}
    IN [k \in DOMAIN feature \ gone |-> feature[k]]

\* One pass of the loop of lines 519-587, given the band summary of the
\* item's collection.
make_feature(i, bands, assets_kwargs, exclude, headers, store) ==
    LET processors == get_item_processors(store, i.id)
        geom == IF i.footprint # NullGeom THEN i.footprint ELSE i.bbox
        extensions == get_stac_extensions(<<i.category>>)
                      \o (IF DOMAIN processors # {}
                          THEN get_stac_extensions(<<"processing">>) ELSE <<>>)
        properties == feature_properties(i, processors)
        base == resolve_item_file_root(i, headers)
        has_assets == ~IsNone(i.assets) /\ DOMAIN i.assets.v # {}
        assets == [key \in DOMAIN i.assets.v |->
                      feature_asset(i, key, bands, base, assets_kwargs)]
        storage == IF GetTruthy(properties, <<"storage:", "platform">>)
                   THEN get_stac_extensions(<<"storage">>) ELSE <<>>
        keys == {"type", "id", "collection", "stac_version", "stac_extensions",
                 "geometry", "links", "bbox", "properties"}
                \cup (IF has_assets THEN {"assets"} ELSE {})
        feature == [k \in keys |->
                      CASE k = "type" -> "Feature"
                        [] k = "id" -> i.item
                        [] k = "collection" -> i.collection
                        [] k = "stac_version" -> "BDC_STAC_API_VERSION"
                        [] k = "stac_extensions" -> extensions \o storage
                        [] k = "geometry" -> geom
                        [] k = "links" -> feature_links(i, resolve_stac_url(headers), assets_kwargs)
                        [] k = "bbox" -> IF i.bbox # NullGeom THEN i.bbox ELSE <<>>
                        [] k = "assets" -> assets
                        [] k = "properties" -> properties]
    IN IF geom = NullGeom THEN [status |-> "AttributeError", feature |-> <<>>]   \* to_shape(None)
       ELSE IF ~i.assets_column THEN [status |-> "AttributeError", feature |-> <<>>]
       ELSE IF \E n \in 1..Len(exclude) : exclude[n].dotted
       THEN [status |-> "TypeError", feature |-> <<>>]     \* unhashable key
       ELSE [status |-> "ok", feature |-> pop_excluded(feature, exclude)]

\* The loop, threading the memoized get_collection_eo through the items.
RECURSIVE make_geojson(_, _, _, _, _, _, _)
make_geojson(items, n, assets_kwargs, exclude, headers, store, eo_cache) ==
    IF n = 0 THEN [status |-> "ok", features |-> <<>>, eo |-> eo_cache]
    ELSE LET prev == make_geojson(items, n - 1, assets_kwargs, exclude, headers,
                                  store, eo_cache)
             i == items[n]
             looked == IF i.category = "eo"
                       THEN lru_call(prev.eo, i.collection_id,
                                     collection_eo(store, i.collection_id))
                       ELSE [value |-> [eo_gsd |-> 0, eo_bands |-> <<>>],
                             hit |-> FALSE, entries |-> prev.eo]
             made == make_feature(i, looked.value, assets_kwargs, exclude, headers, store)
         IN IF prev.status # "ok" THEN prev
            ELSE IF made.status # "ok"
            THEN [status |-> made.status, features |-> <<>>, eo |-> looked.entries]
            ELSE [status |-> "ok", features |-> Append(prev.features, made.feature),
                  eo |-> looked.entries]

(***************************************************************************)
(* Inputs of the other operations.                                         *)
(***************************************************************************)
MaxFieldLen == 5    \* longest fields string, in tokens
MaxBands == 3       \* bands of the collection whose band table varies
MaxResolution == 2  \* band resolutions are 1 .. MaxResolution

FieldTokens == {"a", "b", "-", ".", ","}

FieldInputs == {None} \cup {Str(f) : f \in SeqsUpTo(FieldTokens, MaxFieldLen)}

QueryColumns == {<<"bdc:tile">>, <<"bdc:tiles">>, <<"eo:cloud_cover">>, <<"platform">>}

QueryOps == MappingOps \cup {"regex"}

QueryValue(o) == IF o = "in" THEN List(<<<<"1">>>>) ELSE Str(<<"1">>)

QueryInputs ==
    {<<>>}
    \cup {<<[column |-> c, filters |-> <<[op |-> o, value |-> QueryValue(o)]>>]>> :
            c \in QueryColumns, o \in QueryOps}
    \cup {<<[column |-> c, filters |-> <<[op |-> o[1], value |-> QueryValue(o[1])],
                                        [op |-> o[2], value |-> QueryValue(o[2])]>>]>> :
            c \in QueryColumns,
            o \in {oo \in QueryOps \X (QueryOps \ {"regex"}) : oo[1] # oo[2]}}
    \cup {<<[column |-> c1, filters |-> <<[op |-> o1, value |-> QueryValue(o1)]>>],
            [column |-> <<"platform">>, filters |-> <<[op |-> o2, value |-> QueryValue(o2)]>>]>> :
            c1 \in BdcPropertyNames, o1 \in QueryOps, o2 \in QueryOps}

(***************************************************************************)
(* The service: one request is handled end to end, then the worker is idle *)
(* again.  The store is read-only; the memoized lookups outlive a request. *)
(***************************************************************************)
Idle ==
    /\ op = "idle"
    /\ args = <<>>
    /\ out = <<>>

Init ==
    /\ db = Catalog
    /\ conf \in [use_footprint : BOOLEAN]
    /\ cache = EmptyCache
    /\ Idle

GetCollectionItems ==
    /\ op = "idle"
    /\ \E a \in ItemRequests :
        /\ op' = "get_collection_items"
        /\ args' = a
        /\ out' = get_collection_items(a, db, conf)
    /\ UNCHANGED <<db, conf, cache>>

GetCatalog ==
    /\ op = "idle"
    /\ \E r \in {None} \cup {List(l) : l \in RoleLists} :
        /\ op' = "get_catalog"
        /\ args' = [roles |-> r]
        /\ out' = get_catalog(r, db)
    /\ UNCHANGED <<db, conf, cache>>

CreateQueryFilter ==
    /\ op = "idle"
    /\ \E q \in QueryInputs :
        /\ op' = "create_query_filter"
        /\ args' = [query |-> Dict(q)]
        /\ out' = create_query_filter(q)
    /\ UNCHANGED <<db, conf, cache>>

ParseFieldsParameter ==
    /\ op = "idle"
    /\ \E f \in FieldInputs :
        /\ op' = "parse_fields_parameter"
        /\ args' = [fields |-> f]
        /\ out' = parse_fields_parameter(f)
    /\ UNCHANGED <<db, conf, cache>>

Return ==
    /\ op # "idle"
    /\ op' = "idle"
    /\ args' = <<>>
    /\ out' = <<>>
    /\ UNCHANGED <<db, conf, cache>>

Next ==
    \/ GetCollectionItems
    \/ GetCatalog
    \/ CreateQueryFilter
    \/ ParseFieldsParameter
    \/ Return

Spec == Init /\ [][Next]_vars

(***************************************************************************)
(* get_collection_eo on its own, over every band table of collection 1.    *)
(***************************************************************************)
BandNames == <<<<"B1">>, <<"B2">>, <<"B3">>, <<"B4">>, <<"B5">>>>

Resolutions ==
    {None} \cup {List(<<x>>) : x \in 1..MaxResolution}
    \cup {List(<<x, y>>) : x \in 1..MaxResolution, y \in 1..MaxResolution}

VariedBands(res) ==
    [n \in 1..Len(res) |->
        [collection_id |-> 1, name |-> BandNames[n], common_name |-> BandNames[n],
         min_value |-> IF n % 2 = 0 THEN NullNum ELSE 0, max_value |-> 10 * n,
         data_type |-> "int16", eo_resolutions |-> res[n],
         properties |-> [k \in {} |-> 0]]]

InitEo ==
    /\ \E res \in SeqsUpTo(Resolutions, MaxBands) :
        db = [Catalog EXCEPT !.bands = VariedBands(res) \o BandsOf(Catalog, 2)]
    /\ conf = [use_footprint |-> FALSE]
    /\ cache = EmptyCache
    /\ Idle

GetCollectionEo ==
    /\ op = "idle"
    /\ \E collection_id \in 1..2 :
        LET r == lru_call(cache.eo, collection_id, collection_eo(db, collection_id)) IN
        /\ op' = "get_collection_eo"
        /\ args' = [collection_id |-> collection_id]
        /\ out' = [status |-> "ok", value |-> r.value, hit |-> r.hit]
        /\ cache' = [cache EXCEPT !.eo = r.entries]
    /\ UNCHANGED <<db, conf>>

NextEo ==
    \/ GetCollectionEo
    \/ Return

SpecEo == InitEo /\ [][NextEo]_vars

(***************************************************************************)
(* make_geojson over rows of every shape.                                  *)
(***************************************************************************)
MetaVariants ==
    {None,
     Dict([k \in {<<"platform">>} |-> <<"p", "1">>]),
     Dict([k \in {<<"storage:", "platform">>} |-> <<"AWS">>]),
     Dict([k \in {<<"storage:", "platform">>} |-> <<>>]),
     Dict([k \in {<<"storage:", "region">>} |-> <<"us">>]),
     Dict([k \in {<<"storage:", "platform">>, <<"platform">>} |-> <<"AWS">>])}

StoredHrefs ==
    {<<"/", "Repository", "/", "B1.tif">>,
     <<"B1.tif">>,
     <<"s3:", "//bucket", "/", "B1.tif">>}

AssetVariants ==
    {[assets_column |-> TRUE, assets |-> None],
     [assets_column |-> FALSE, assets |-> None]}
    \cup {[assets_column |-> TRUE,
           assets |-> Dict([k \in {<<"B1">>, <<"thumbnail">>} |-> [href |-> h]])] :
            h \in StoredHrefs}

FeatureRows ==
    {[id |-> id, item |-> ItemTable[id].name, collection_id |-> id,
      collection |-> CollectionTable[id].identifier, category |-> cat,
      item_meta |-> m, start |-> 1, end |-> 2, created |-> 0, updated |-> 3,
      cloud_cover |-> 1, footprint |-> ItemTable[id].footprint,
      bbox |-> ItemTable[id].bbox,
      tile |-> IF id = 1 THEN <<"T1">> ELSE NullStr,
      assets_column |-> av.assets_column, assets |-> av.assets] :
        id \in {1, 2}, cat \in {"eo", "sar"}, m \in MetaVariants, av \in AssetVariants}

FeatureLists ==
    {<<>>} \cup {<<r>> : r \in FeatureRows}
    \cup {<<r1, r2>> : r1 \in {r \in FeatureRows : r.id = 1 /\ IsNone(r.item_meta)},
                       r2 \in {r \in FeatureRows : r.id = 2 /\ IsNone(r.item_meta)}}

ExcludeLists ==
    {<<>>,
     <<[name |-> <<"assets">>, dotted |-> FALSE, path |-> <<>>]>>,
     <<[name |-> <<"properties">>, dotted |-> TRUE, path |-> <<<<"datetime">>>>]>>}

HeaderVariants ==
    {[k \in {} |-> <<>>],
     [k \in {"X-Script-Name"} |-> <<"http:", "//cdn", "/", "data", "/">>]}

MakeGeojson ==
    /\ op = "idle"
    /\ \E items \in FeatureLists, kw \in {<<>>, <<"?access_token=x">>},
          ex \in ExcludeLists, h \in HeaderVariants :
        LET r == make_geojson(items, Len(items), kw, ex, h, db, cache.eo) IN
        /\ op' = "make_geojson"
        /\ args' = [items |-> items, assets_kwargs |-> kw, exclude |-> ex, headers |-> h]
        /\ out' = [status |-> r.status, features |-> r.features]
        /\ cache' = [cache EXCEPT !.eo = r.eo]
    /\ UNCHANGED <<db, conf>>

NextFeature ==
    \/ MakeGeojson
    \/ Return

SpecFeature == Init /\ [][NextFeature]_vars

(***************************************************************************)
(* A catalog with versioned collections, for get_collections and the       *)
(* memoized lookups: the Collection rows with every column the code reads. *)
(***************************************************************************)
VersionedIds == 1..6

VersionedBase ==
    <<[name |-> <<"S2">>, version |-> <<"1">>, is_public |-> TRUE, is_available |-> TRUE,
       collection_type |-> "cube", category |-> "eo",
       version_successor |-> 2, version_predecessor |-> NullNum],
      [name |-> <<"S2">>, version |-> <<"2">>, is_public |-> FALSE, is_available |-> TRUE,
       collection_type |-> "datacube", category |-> "eo",
       version_successor |-> NullNum, version_predecessor |-> 1],
      [name |-> <<"CB4">>, version |-> <<"1">>, is_public |-> TRUE, is_available |-> TRUE,
       collection_type |-> "collection", category |-> "sar",
       version_successor |-> 4, version_predecessor |-> NullNum],
      [name |-> <<"CB4">>, version |-> <<"2">>, is_public |-> TRUE, is_available |-> FALSE,
       collection_type |-> "cube", category |-> "sar",
       version_successor |-> NullNum, version_predecessor |-> 3],
      [name |-> <<"LC8">>, version |-> <<"1">>, is_public |-> FALSE, is_available |-> TRUE,
       collection_type |-> "cube", category |-> "sar",
       version_successor |-> 6, version_predecessor |-> NullNum],
      [name |-> <<"LC8">>, version |-> <<"2">>, is_public |-> TRUE, is_available |-> TRUE,
       collection_type |-> "datacube", category |-> "sar",
       version_successor |-> NullNum, version_predecessor |-> 5]>>

VersionedMeta ==
    <<None,
      Dict([k \in {<<"deprecated">>} |-> FALSE]),
      Dict([k \in {<<"deprecated">>} |-> TRUE]),
      Dict([k \in {} |-> FALSE]),
      Dict([k \in {<<"platform">>} |-> <<"p">>]),
      None>>

VersionedGrs ==
    <<Dict([name |-> <<"BDC_SM">>, crs |-> <<"+proj=aea">>]), None, None,
      Dict([name |-> <<"BDC_MD">>, crs |-> <<"+proj=aea">>]), None, None>>

VersionedProperties ==
    <<None, Dict([k \in {<<"bdc:", "crs">>} |-> <<"+proj=longlat">>]), None, None,
      Dict([k \in {<<"license">>} |-> <<"MIT">>]), None>>

VersionedCollections ==
    [c \in VersionedIds |->
        [id |-> c,
         name |-> VersionedBase[c].name,
         version |-> VersionedBase[c].version,
         identifier |-> VersionedBase[c].name \o <<"-">> \o VersionedBase[c].version,
         title |-> <<"title">> \o VersionedBase[c].name \o VersionedBase[c].version,
         category |-> VersionedBase[c].category,
         collection_type |-> VersionedBase[c].collection_type,
         is_public |-> VersionedBase[c].is_public,
         is_available |-> VersionedBase[c].is_available,
         version_successor |-> VersionedBase[c].version_successor,
         version_predecessor |-> VersionedBase[c].version_predecessor,
         metadata_ |-> VersionedMeta[c],
         properties |-> VersionedProperties[c],
         grs |-> VersionedGrs[c],
         composite_function |-> IF c % 2 = 0 THEN <<"MED">> ELSE NullStr,
         spatial_extent |-> IF c = 3 THEN NullGeom ELSE <<0, 0, c, c>>,
         start_date |-> IF c = 5 THEN NullNum ELSE 0,
         end_date |-> IF c \in {5, 6} THEN NullNum ELSE 2,
         timeline |-> IF c = 1 THEN <<0, 1, 2>> ELSE <<>>,
         created |-> 0,
         updated |-> 1]]

VersionedCatalog == [Catalog EXCEPT !.collections = VersionedCollections]

\* The Collection object the ORM hands out for a row: one per identity.
CollectionObject(oid, store) ==
    [oid |-> oid,
     row |-> store.collections[((oid - 1) % Cardinality(DOMAIN store.collections)) + 1]]

(***************************************************************************)
(* The memoized lookups on their own: each key is 1 or the next key not    *)
(* yet asked for, up to MaxKeys keys, one function per behaviour.          *)
(***************************************************************************)
MaxKeys == 130      \* distinct keys asked for (more than the cache holds)

CacheKeys(entries) == {entries[n].key : n \in 1..Len(entries)}

\* The largest key asked for so far.
HighestKey(entries) ==
    IF entries = <<>> THEN 0
    ELSE CHOOSE k \in CacheKeys(entries) : \A j \in CacheKeys(entries) : j <= k

\* Key 1 is asked for again early on and around the point the cache is full.
NextKeys(entries) ==
    LET h == HighestKey(entries) IN
    {k \in {1} : h <= 2 \/ h >= LRU_MAXSIZE - 2} \cup {k \in {h + 1} : k <= MaxKeys}

InitCache ==
    /\ db = VersionedCatalog
    /\ conf = [use_footprint |-> FALSE]
    /\ cache = EmptyCache
    /\ Idle

LookupEo ==
    /\ op = "idle"
    /\ cache.quicklook = <<>> /\ cache.crs = <<>>
    /\ \E collection_id \in NextKeys(cache.eo) :
        LET r == lru_call(cache.eo, collection_id, collection_eo(db, collection_id)) IN
        /\ op' = "lookup_eo"
        /\ args' = [key |-> collection_id]
        /\ out' = [status |-> "ok", value |-> r.value, hit |-> r.hit,
                   queries |-> IF r.hit THEN <<>> ELSE <<"bands">>]
        /\ cache' = [cache EXCEPT !.eo = r.entries]
    /\ UNCHANGED <<db, conf>>

LookupQuicklook ==
    /\ op = "idle"
    /\ cache.eo = <<>> /\ cache.crs = <<>>
    /\ \E collection_id \in NextKeys(cache.quicklook) :
        LET r == lru_call(cache.quicklook, collection_id,
                          collection_quicklook(db, collection_id)) IN
        /\ op' = "lookup_quicklook"
        /\ args' = [key |-> collection_id]
        /\ out' = [status |-> "ok", value |-> r.value, hit |-> r.hit,
                   queries |-> IF r.hit THEN <<>> ELSE <<"quicklook">>]
        /\ cache' = [cache EXCEPT !.quicklook = r.entries]
    /\ UNCHANGED <<db, conf>>

LookupCrs ==
    /\ op = "idle"
    /\ cache.eo = <<>> /\ cache.quicklook = <<>>
    /\ \E oid \in NextKeys(cache.crs) :
        LET collection == CollectionObject(oid, db)
            r == lru_call(cache.crs, oid, collection_crs(collection)) IN
        /\ op' = "lookup_crs"
        /\ args' = [key |-> oid, collection_id |-> collection.row.id]
        /\ out' = [status |-> "ok", value |-> r.value, hit |-> r.hit, queries |-> <<>>]
        /\ cache' = [cache EXCEPT !.crs = r.entries]
    /\ UNCHANGED <<db, conf>>

NextCache ==
    \/ LookupEo
    \/ LookupQuicklook
    \/ LookupCrs
    \/ Return

SpecCache == InitCache /\ [][NextCache]_vars

(***************************************************************************)
(* get_collections                                                         *)
(***************************************************************************)
Bool(b) == [t |-> "bool", v |-> b]

\* _collection_link
collection_link(collection, rel, qs, headers) ==
    [href |-> resolve_stac_url(headers) \o <<"/", "collections", "/">>
              \o collection.identifier \o qs,
     rel |-> rel,
     title |-> collection.title]

\* The rows of lines 338-344: available, passing the roles constraint and,
\* with a collection_id, named name-version = collection_id; in id order.
collections_result(collection_id, roles, store) ==
    LET where == <<IsTrue(Col("Collection.is_available")), add_roles_constraint(roles)>>
        chosen == {c \in SelectedCollections(where, store) :
                     Truthy(collection_id) =>
                        store.collections[c].name \o <<"-">> \o store.collections[c].version
                            = collection_id.v}
    IN SelectSeq([c \in 1..Cardinality(DOMAIN store.collections) |-> c],
                 LAMBDA c : c \in chosen)

\* Slip: the shallow map of the scoped call is not restricted to the roles.
collection_map_unrestricted(collection_id, roles, result, store) ==
    IF Truthy(collection_id) /\ result # <<>>
    THEN {c \in DOMAIN store.collections : store.collections[c].is_available}
    ELSE Range(result)

\* The ids collection_map has an entry for (lines 346-353).
collection_map(collection_id, roles, result, store) ==
    IF Truthy(collection_id) /\ result # <<>>
    THEN SelectedCollections(<<IsTrue(Col("Collection.is_available")),
                               add_roles_constraint(roles)>>, store)
    ELSE Range(result)

\* deprecated = successor is not None or (meta and meta.get("deprecated", False))
deprecated_value(successor_found, meta) ==
    IF successor_found THEN Bool(TRUE)
    ELSE IF IsNone(meta) THEN None
    ELSE IF DOMAIN meta.v = {} THEN meta
    ELSE IF <<"deprecated">> \in DOMAIN meta.v
    THEN Bool(meta.v[<<"deprecated">>] = TRUE)
    ELSE Bool(FALSE)

collection_extensions(row) ==
    (IF row.collection_type = "datacube" THEN <<"datacube">> ELSE <<>>)
    \o (IF row.category \in {"sar", "eo"} THEN <<row.category>> ELSE <<>>)

cube_dimensions(row, bbox, start, end, proj4text, eo) ==
    LET axes == [k \in {"x", "y", "temporal"} |->
                    CASE k = "x" -> [type |-> "spatial", axis |-> "x",
                                     extent |-> <<bbox[1], bbox[3]>>,
                                     reference_system |-> proj4text]
                      [] k = "y" -> [type |-> "spatial", axis |-> "y",
                                     extent |-> <<bbox[2], bbox[4]>>,
                                     reference_system |-> proj4text]
                      [] k = "temporal" -> [type |-> "temporal", extent |-> <<start, end>>,
                                            values |-> row.timeline]]
    IN IF row.category = "eo"
       THEN Update(axes, [k \in {"bands"} |->
                            [type |-> "bands",
                             values |-> [n \in 1..Len(eo.eo_bands) |-> eo.eo_bands[n]["name"]]]])
       ELSE axes

\* One pass of the loop of lines 358-482: the document of row c, given the
\* memoized values looked up for it.
collection_document(c, linked, qs, headers, store, quicklooks, eo, proj4text) ==
    LET row == store.collections[c]
        successor_found == row.version_successor # NullNum /\ row.version_successor \in linked
        predecessor_found == row.version_predecessor # NullNum
                             /\ row.version_predecessor \in linked
        extra_links ==
            (IF successor_found
             THEN <<collection_link(store.collections[row.version_successor],
                                    "successor-version", qs, headers)>> ELSE <<>>)
            \o (IF predecessor_found
                THEN <<collection_link(store.collections[row.version_predecessor],
                                       "predecessor-version", qs, headers)>> ELSE <<>>)
        meta == row.metadata_
        stac_url == resolve_stac_url(headers)
        bbox == IF row.spatial_extent # NullGeom THEN row.spatial_extent
                ELSE <<NullNum, NullNum, NullNum, NullNum>>
        start == IF row.start_date # NullNum THEN strftime(row.start_date) ELSE NullStr
        end == IF row.start_date # NullNum /\ row.end_date # NullNum
               THEN strftime(row.end_date) ELSE NullStr
        is_cube == row.collection_type = "cube"
        keys == {"id", "type", "stac_extensions", "title", "version", "deprecated",
                 "bdc:type", "extent", "links"}
                \cup (IF ~IsNone(row.grs) THEN {"bdc:grs"} ELSE {})
                \cup (IF row.composite_function # NullStr THEN {"bdc:composite_function"} ELSE {})
                \cup (IF ~IsNone(quicklooks) THEN {"bdc:bands_quicklook"} ELSE {})
                \cup (IF ~IsNone(meta) /\ DOMAIN meta.v # {} THEN {"bdc:metadata"} ELSE {})
                \cup (IF is_cube THEN {"cube:dimensions", "bdc:crs"} ELSE {})
    IN [k \in keys |->
          CASE k = "id" -> row.identifier
            [] k = "type" -> "Collection"
            [] k = "stac_extensions" ->
                  get_stac_extensions(<<"version", "processing", "item-assets">>)
                  \o get_stac_extensions(collection_extensions(row))
                  \o (IF is_cube THEN get_stac_extensions(<<"datacube">>) ELSE <<>>)
            [] k = "title" -> row.title
            [] k = "version" -> row.version
            [] k = "deprecated" -> deprecated_value(successor_found, meta)
            [] k = "bdc:type" -> row.collection_type
            [] k = "extent" -> [bbox |-> bbox, interval |-> <<start, end>>]
            [] k = "bdc:grs" -> row.grs.v.name
            [] k = "bdc:composite_function" -> row.composite_function
            [] k = "bdc:bands_quicklook" -> quicklooks.v
            [] k = "bdc:metadata" -> meta.v
            [] k = "cube:dimensions" -> cube_dimensions(row, bbox, start, end, proj4text, eo)
            [] k = "bdc:crs" -> proj4text
            [] k = "links" ->
                  <<[href |-> stac_url \o <<"/", "collections", "/">> \o row.identifier \o qs,
                     rel |-> "self", title |-> <<"Link to this document">>],
                    [href |-> stac_url \o <<"/", "collections", "/">> \o row.identifier
                              \o <<"/", "items">> \o qs,
                     rel |-> "items", title |-> <<"Items of the collection">> \o row.identifier],
                    [href |-> stac_url \o <<"/", "collections">> \o qs,
                     rel |-> "parent", title |-> <<"Link to catalog collections">>],
                    [href |-> stac_url \o <<"/">> \o qs,
                     rel |-> "root", title |-> <<"API landing page (root catalog)">>]>>
                  \o extra_links]

\* The loop over the result rows, threading the three memoized lookups;
\* worker is the session the Collection objects of this call belong to.
RECURSIVE collections_loop(_, _, _, _, _, _, _, _)
collections_loop(result, n, linked, qs, headers, worker, store, caches) ==
    IF n = 0 THEN [collections |-> <<>>, cache |-> caches]
    ELSE LET prev == collections_loop(result, n - 1, linked, qs, headers, worker,
                                      store, caches)
             c == result[n]
             row == store.collections[c]
             ql == lru_call(prev.cache.quicklook, c, collection_quicklook(store, c))
             eo == IF row.category = "eo"
                   THEN lru_call(prev.cache.eo, c, collection_eo(store, c))
                   ELSE [value |-> [eo_gsd |-> 0, eo_bands |-> <<>>], hit |-> FALSE,
                         entries |-> prev.cache.eo]
             object == CollectionObject(
                          (worker - 1) * Cardinality(DOMAIN store.collections) + c, store)
             crs == IF row.collection_type = "cube"
                    THEN lru_call(prev.cache.crs, object.oid, collection_crs(object))
                    ELSE [value |-> NullStr, hit |-> FALSE, entries |-> prev.cache.crs]
         IN [collections |->
                Append(prev.collections,
                       collection_document(c, linked, qs, headers, store,
                                           ql.value, eo.value, crs.value)),
             cache |-> [eo |-> eo.entries, quicklook |-> ql.entries, crs |-> crs.entries]]

get_collections(collection_id, roles_arg, assets_kwargs, headers, worker, store, caches) ==
    LET roles == IF IsNone(roles_arg) THEN <<>> ELSE roles_arg.v
        result == collections_result(collection_id, roles, store)
        linked == collection_map(collection_id, roles, result, store)
        looped == collections_loop(result, Len(result), linked, assets_kwargs, headers,
                                   worker, store, caches)
    IN [status |-> "ok", collections |-> looped.collections, rows |-> result,
        cache |-> looped.cache]

(***************************************************************************)
(* get_collections over catalogs whose flags and version links vary.       *)
(***************************************************************************)
MaxWarm == 1        \* requests are taken while at most MaxWarm values are cached
MaxWorkers == 2     \* worker sessions handing out Collection objects

VariedVersioned(public2, available4, successor5) ==
    [VersionedCatalog EXCEPT
        !.collections[2].is_public = public2,
        !.collections[4].is_available = available4,
        !.collections[5].version_successor = successor5]

VersionedRoles ==
    {None, List(<<>>), List(<<<<"S2", "-", "2">>>>), List(<<StarRole>>),
     List(<<<<"LC8", "-", "1">>, <<"S2", "-", "2">>>>)}

VersionedRequests ==
    {None, Str(<<"S2", "-", "1">>), Str(<<"S2", "-", "2">>), Str(<<"CB4", "-", "1">>),
     Str(<<"LC8", "-", "1">>), Str(<<"zz", "-", "1">>)}

InitCollections ==
    /\ \E public2 \in BOOLEAN, available4 \in BOOLEAN, successor5 \in {NullNum, 2, 6} :
        db = VariedVersioned(public2, available4, successor5)
    /\ conf = [use_footprint |-> FALSE]
    /\ cache = EmptyCache
    /\ Idle

GetCollections ==
    /\ op = "idle"
    /\ Len(cache.eo) + Len(cache.quicklook) + Len(cache.crs) <= MaxWarm
    /\ \E collection_id \in VersionedRequests, roles \in VersionedRoles,
          qs \in {<<>>, <<"?access_token=x">>}, worker \in 1..MaxWorkers :
        LET r == get_collections(collection_id, roles, qs, [k \in {} |-> <<>>],
                                 worker, db, cache) IN
        /\ op' = "get_collections"
        /\ args' = [collection_id |-> collection_id, roles |-> roles,
                    assets_kwargs |-> qs, worker |-> worker]
        /\ out' = [status |-> r.status, collections |-> r.collections, rows |-> r.rows]
        /\ cache' = r.cache
    /\ UNCHANGED <<db, conf>>

NextCollections ==
    \/ GetCollections
    \/ Return

SpecCollections == InitCollections /\ [][NextCollections]_vars

(***************************************************************************)
(* The items pipeline: the exclude list parsed from the fields parameter   *)
(* goes to the search and, with the rows found, to make_geojson.           *)
(***************************************************************************)
\* The exclude list as the search sees it: a bare name is the string, a
\* dotted entry a pair, which equals no string.
search_exclude(exclude) ==
    [n \in 1..Len(exclude) |->
        IF exclude[n].dotted
        THEN <<"(">> \o exclude[n].name \o <<",">> \o JoinWith(exclude[n].path, ",") \o <<")">>
        ELSE exclude[n].name]

\* The row the search yields for item id: the columns of lines 109-129, the
\* assets column only when it was selected.
item_row(id, assets_column, store) ==
    LET i == store.items[id]
        c == store.collections[i.collection_id]
    IN [id |-> id, item |-> i.name, collection_id |-> i.collection_id,
        collection |-> c.identifier, category |-> c.category,
        item_meta |-> IF DOMAIN i.metadata_ = {} THEN None ELSE Dict(i.metadata_),
        start |-> i.start_date, end |-> i.end_date, created |-> 0, updated |-> 3,
        cloud_cover |-> i.cloud_cover, footprint |-> i.footprint, bbox |-> i.bbox,
        tile |-> IF i.tile_id \in DOMAIN store.tiles
                 THEN store.tiles[i.tile_id].name ELSE NullStr,
        assets_column |-> assets_column,
        assets |-> IF assets_column THEN store.assets[id] ELSE None]

\* The rows of a result page, in page order.
RECURSIVE result_rows(_, _, _, _)
result_rows(items, n, assets_column, store) ==
    IF n = 0 THEN <<>>
    ELSE Append(result_rows(items, n - 1, assets_column, store),
                item_row(items[n], assets_column, store))

\* The outcome of the pipeline: the search's failure, or what make_geojson
\* made of the rows found.
items_pipeline(parsed, found, made, eo_cache) ==
    IF found.status # "ok"
    THEN [status |-> found.status, exclude |-> parsed.exclude,
          assets_column |-> found.assets_column, rows |-> <<>>, features |-> <<>>,
          eo |-> eo_cache]
    ELSE [status |-> made.status, exclude |-> parsed.exclude,
          assets_column |-> found.assets_column, rows |-> found.result.items,
          features |-> made.features, eo |-> made.eo]

PipelineFields ==
    {None,
     Str(<<"-", "assets">>),
     Str(<<"-", "links">>),
     Str(<<"id", ",", "-", "geometry">>),
     Str(<<"-", "assets", ",", "-", "bbox">>),
     Str(<<"-", "nokey">>),
     Str(<<"-", "properties", ".", "datetime">>)}

PipelineRequests ==
    {[DefaultRequest EXCEPT !.collection_id = ci, !.ids = ids, !.roles = r,
                            !.page = pg, !.limit = lim] :
        ci \in {None, Str(<<"S2-1">>), Str(<<"MOD-1">>)},
        ids \in {None, List(<<<<"n0">>, <<"n2">>>>)},
        r \in {None, List(<<<<"LC8-1">>>>)},
        pg \in 1..2, lim \in 1..2}

ItemsPipeline ==
    /\ op = "idle"
    /\ \E fields \in PipelineFields, a \in PipelineRequests :
       \E parsed \in {parse_fields_parameter(fields)} :
       \E found \in {get_collection_items(
                        [a EXCEPT !.exclude = search_exclude(parsed.exclude)], db, conf)} :
       \E rows \in {result_rows(found.result.items, Len(found.result.items),
                                found.assets_column, db)} :
       \E made \in {make_geojson(rows, Len(rows), <<>>, parsed.exclude,
                                 [k \in {} |-> <<>>], db, cache.eo)} :
       \E r \in {items_pipeline(parsed, found, made, cache.eo)} :
        /\ op' = "items_pipeline"
        /\ args' = [fields |-> fields, request |-> a]
        /\ out' = [status |-> r.status, exclude |-> r.exclude,
                   assets_column |-> r.assets_column, rows |-> r.rows,
                   features |-> r.features]
        /\ cache' = [cache EXCEPT !.eo = r.eo]
    /\ UNCHANGED <<db, conf>>

NextPipeline ==
    \/ ItemsPipeline
    \/ Return

SpecPipeline == Init /\ [][NextPipeline]_vars

(***************************************************************************)
(* Properties of get_collection_items.                                     *)
(***************************************************************************)
IsSearch == op = "get_collection_items"

BothCollectionParams == Truthy(args.collection_id) /\ Truthy(args.collections)

\* C1 (as stated): a call with both a non-empty collection_id and a non-empty
\* collections list is always rejected with a 400, whatever the other
\* parameters are, ids included.
C1_AlwaysRejected ==
    (IsSearch /\ BothCollectionParams) => out.status = "400"

\* C1 (amended): with ids absent, a call with both a non-empty collection_id
\* and a non-empty collections list is rejected with a 400 before any query is
\* sent, whatever bbox, datetime, intersects, query and item_id are; with ids
\* supplied the two parameters are ignored and the call is answered.
C1_RejectedUnlessIds ==
    (IsSearch /\ BothCollectionParams) =>
        IF IsNone(args.ids)
        THEN out.status = "400" /\ out.queries = <<>>
        ELSE out.status = "ok"

C1_Witness ==
    /\ IsSearch /\ BothCollectionParams
    /\ IsNone(args.ids)
    /\ ~IsNone(args.bbox) /\ ~IsNone(args.datetime) /\ Truthy(args.query)
    /\ ~IsNone(args.intersects)
    /\ out.status = "400"

RolesOf(a) == IF IsNone(a.roles) THEN <<>> ELSE a.roles.v

CollectionOf(i) == db.collections[db.items[i].collection_id]

\* The collection passes the constraint the code builds for these roles.
PassesRoles(roles, c) ==
    Eval(add_roles_constraint(roles), [c |-> c, i |-> db.items[1], t |-> NullStr])

\* The names an ids argument lists: the list itself, or the comma-separated
\* entries of the string.
NamesOf(ids) ==
    IF ids.t = "list" THEN Range(ids.v)
    ELSE LET v == ids.v
             entries == {<<lo, hi>> \in (1..(Len(v) + 1)) \X (0..Len(v)) :
                            /\ lo <= hi + 1
                            /\ lo = 1 \/ v[lo - 1] = ","
                            /\ hi = Len(v) \/ v[hi + 1] = ","
                            /\ \A k \in lo..hi : v[k] # ","}
         IN {SubSeq(v, e[1], e[2]) : e \in entries}

BBoxParts(b) ==
    IF b.t = "list" THEN b.v
    ELSE LET v == b.v
             cuts == <<0>> \o [k \in 1..Cardinality({x \in 1..Len(v) : v[x] = ","}) |->
                                 CHOOSE x \in 1..Len(v) :
                                    /\ v[x] = ","
                                    /\ Cardinality({y \in 1..x : v[y] = ","}) = k]
                      \o <<Len(v) + 1>>
         IN [k \in 1..(Len(cuts) - 1) |-> SubSeq(v, cuts[k] + 1, cuts[k + 1] - 1)]

IsNumber(s) == s \in {<<Digits[d]>> : d \in 1..Len(Digits)}
NumberOf(s) == CHOOSE n \in 0..9 : <<Digits[n + 1]>> = s

\* The request reaches the bbox handling: no ids, no intersects geometry, and
\* none of the earlier steps has ended the call.
ReachesBBox ==
    /\ IsSearch
    /\ IsNone(args.ids) /\ IsNone(args.intersects) /\ ~IsNone(args.bbox)
    /\ ~BothCollectionParams
    /\ ~(Truthy(args.query) /\ create_query_filter(args.query.v).status # "ok")

EnvelopePredicates ==
    {n \in 1..Len(out.where) : out.where[n].k = "ST_Intersects"}

\* C4 (as stated): a malformed bbox (a non-numeric component, or not four
\* numbers) or a degenerate one (west = east or south = north) ends in a 400
\* with no item query executed; a bbox of four numbers with west # east and
\* south # north adds exactly one envelope-intersection predicate on the
\* configured geometry field.
C4_BBoxValidated ==
    ReachesBBox =>
        LET parts == BBoxParts(args.bbox)
            numeric == \A k \in 1..Len(parts) : IsNumber(parts[k])
            four == Len(parts) = 4
        IN IF ~numeric \/ ~four
              \/ NumberOf(parts[1]) = NumberOf(parts[3])
              \/ NumberOf(parts[2]) = NumberOf(parts[4])
           THEN out.status = "400" /\ "items" \notin Range(out.queries)
           ELSE /\ out.status \in {"ok", "ValueError", "DataError"}
                /\ out.status = "ok" =>
                    /\ Cardinality(EnvelopePredicates) = 1
                    /\ \A n \in EnvelopePredicates :
                        /\ out.where[n].geom =
                              ST_MakeEnvelope(NumberOf(parts[1]), NumberOf(parts[2]),
                                              NumberOf(parts[3]), NumberOf(parts[4]))
                        /\ out.where[n].field = geom_field(conf.use_footprint)


Times == 0..MaxTime
Ts(t) == TsTok[t + 1]

\* What the claim says an item [start, end] must satisfy for a datetime string;
\* "none" for a string that is none of the four forms.
TemporalMatch(dt, start, end) ==
    IF \E t \in Times : dt = <<Ts(t)>>
    THEN LET t == CHOOSE t \in Times : dt = <<Ts(t)>>
         IN IF start <= t /\ t <= end THEN "yes" ELSE "no"
    ELSE IF \E t2 \in Times : dt \in {<<"..", "/", Ts(t2)>>, <<"/", Ts(t2)>>}
    THEN LET t2 == CHOOSE t2 \in Times : dt \in {<<"..", "/", Ts(t2)>>, <<"/", Ts(t2)>>}
         IN IF start <= t2 \/ end <= t2 THEN "yes" ELSE "no"
    ELSE IF \E t1 \in Times : dt \in {<<Ts(t1), "/", "..">>, <<Ts(t1), "/">>}
    THEN LET t1 == CHOOSE t1 \in Times : dt \in {<<Ts(t1), "/", "..">>, <<Ts(t1), "/">>}
         IN IF start >= t1 \/ end >= t1 THEN "yes" ELSE "no"
    ELSE IF \E t1, t2 \in Times : dt = <<Ts(t1), "/", Ts(t2)>>
    THEN LET r == CHOOSE r \in Times \X Times : dt = <<Ts(r[1]), "/", Ts(r[2])>>
         IN IF \/ (r[1] <= start /\ start <= r[2])
               \/ (r[1] <= end /\ end <= r[2])
               \/ (start < r[1] /\ end > r[2])
            THEN "yes" ELSE "no"
    ELSE "none"

HasTemporalFilter ==
    /\ IsSearch
    /\ IsNone(args.ids) /\ ~IsNone(args.datetime)
    /\ TemporalMatch(args.datetime.v, 0, 0) # "none"
    /\ out.status \notin {"400", "KeyError", "IndexError"}

\* A row of the store with the given interval.
RowWithInterval(start, end) ==
    [c |-> db.collections[1],
     i |-> [db.items[1] EXCEPT !.start_date = start, !.end_date = end],
     t |-> NullStr]

\* C5: for a single timestamp, an open start, an open end and a closed range
\* the temporal predicate of the query matches an item interval [start, end]
\* exactly as the four rules say, and the query returns, among the items the
\* other predicates select, exactly those the rule matches.
C5_TemporalPredicate ==
    HasTemporalFilter =>
        LET n == Len(out.where)
            others == SubSeq(out.where, 1, n - 1)
        IN /\ out.status = "ok"
           /\ \A start \in 0..(MaxTime + 1), end \in 0..(MaxTime + 1) :
                start <= end =>
                    (Eval(out.where[n], RowWithInterval(start, end))
                        <=> TemporalMatch(args.datetime.v, start, end) = "yes")
           /\ Selected(out.where, db) =
                {i \in Selected(others, db) :
                    TemporalMatch(args.datetime.v, db.items[i].start_date,
                                  db.items[i].end_date) = "yes"}

\* A closed range strictly inside an item's interval, and the item returned.
C5_Witness ==
    /\ HasTemporalFilter
    /\ \E t1, t2 \in Times : args.datetime.v = <<Ts(t1), "/", Ts(t2)>> /\ t1 <= t2
    /\ \E i \in Range(out.result.items) :
        /\ TemporalMatch(args.datetime.v, db.items[i].start_date, db.items[i].end_date) = "yes"
        /\ db.items[i].start_date < TimestampVal(<<args.datetime.v[1]>>)
        /\ db.items[i].end_date > TimestampVal(<<args.datetime.v[3]>>)

Matching == Selected(out.where, db)

\* Position of a matching item in the order start descending, id ascending.
RankOf(i) ==
    1 + Cardinality({j \in Matching :
                        \/ db.items[j].start_date > db.items[i].start_date
                        \/ /\ db.items[j].start_date = db.items[i].start_date
                           /\ j < i})

\* The page of size n numbered p holds the matching items ranked
\* (p-1)*n + 1 .. p*n, in rank order.
PageIs(items, p, n) ==
    /\ Range(items) = {i \in Matching : (p - 1) * n < RankOf(i) /\ RankOf(i) <= p * n}
    /\ \A k \in 1..Len(items) : RankOf(items[k]) = (p - 1) * n + k

Answered == IsSearch /\ out.status = "ok"

InRankOrder(items) ==
    \A k \in 1..(Len(items) - 1) : RankOf(items[k]) < RankOf(items[k + 1])

\* C7 (as stated): for every page and limit the page holds at most
\* min(limit, maximum) rows, taken in the order start descending then id
\* ascending; a page past the last one is empty, without error; pages 1, 2, ...
\* of a fixed limit hold every matching item exactly once (so page p holds the
\* items ranked (p-1)*n+1 .. p*n, and is empty only past the last page).
C7_EveryPageAndLimit ==
    Answered =>
        LET n == Min2(args.limit, BDC_STAC_MAX_LIMIT) IN
        /\ Len(out.result.items) <= n
        /\ InRankOrder(out.result.items)
        /\ args.page >= 1 =>
            /\ PageIs(out.result.items, args.page, n)
            /\ out.result.items = <<>> => Cardinality(Matching) <= (args.page - 1) * n

\* C7 (amended): the same for every limit >= 1; a page number below 1 is
\* answered as page 1.
C7_PositiveLimit ==
    (Answered /\ args.limit >= 1) =>
        LET n == Min2(args.limit, BDC_STAC_MAX_LIMIT)
            p == Max2(args.page, 1)
        IN /\ Len(out.result.items) <= n
           /\ InRankOrder(out.result.items)
           /\ PageIs(out.result.items, p, n)
           /\ out.result.items = <<>> => Cardinality(Matching) <= (p - 1) * n
           /\ out.result.total = Cardinality(Matching)

\* A clamped limit, on the last, partly filled page.
C7_Witness ==
    /\ Answered
    /\ args.limit > BDC_STAC_MAX_LIMIT
    /\ args.page = 2
    /\ Len(out.result.items) = 1
    /\ out.result.total = BDC_STAC_MAX_LIMIT + 1

\* A page past the last one: answered, with no rows.
C7_WitnessPastLast ==
    /\ Answered
    /\ args.limit >= 1
    /\ args.page > 2
    /\ out.result.total > 0
    /\ out.result.items = <<>>

(***************************************************************************)
(* Properties of the role constraint.                                      *)
(***************************************************************************)
\* Visibility as described: public, or named by a role, or the wildcard held.
VisibleTo(roles, c) ==
    \/ c.is_public
    \/ c.identifier \in Range(roles)
    \/ StarRole \in Range(roles)

\* C3 (as stated): the predicate of _add_roles_constraint holds of a
\* collection exactly when it is public, or its identifier is in the role
\* list, or the list contains '*'; so get_catalog and get_collection_items
\* return, with no roles, public collections only, and with '*' every
\* available collection whatever its public flag.
C3_RolesVisibility ==
    /\ op = "get_catalog" =>
        /\ \A c \in DOMAIN db.collections :
              Eval(out.where[2], [c |-> db.collections[c], i |-> db.items[1], t |-> NullStr])
                 <=> VisibleTo(RolesOf(args), db.collections[c])
        /\ out.rows = {c \in DOMAIN db.collections :
                          /\ db.collections[c].is_available
                          /\ VisibleTo(RolesOf(args), db.collections[c])}
    /\ (IsSearch /\ ~IsNone(args.ids) /\ out.status = "ok") =>
        Selected(out.where, db) =
            {i \in DOMAIN db.items :
                /\ db.items[i].name \in NamesOf(args.ids)
                /\ db.items[i].is_available
                /\ CollectionOf(i).is_available
                /\ VisibleTo(RolesOf(args), CollectionOf(i))}

(***************************************************************************)
(* Properties of create_query_filter.                                      *)
(***************************************************************************)
KnownOperators == {"eq", "neq", "lt", "lte", "gt", "gte", "startsWith", "endsWith",
                   "contains", "in"}

HasUnknownOperator(query) ==
    \E c \in 1..Len(query) : \E o \in 1..Len(query[c].filters) :
        query[c].filters[o].op \notin KnownOperators

NumberOfPairs(query) ==
    LET RECURSIVE Sum(_)
        Sum(c) == IF c = 0 THEN 0 ELSE Sum(c - 1) + Len(query[c].filters)
    IN Sum(Len(query))

\* C6 (as stated): a property query with an operator outside the ten known
\* ones fails with UnsupportedOperator, a 400 for the caller; with known
\* operators only there is one predicate per (property, operator) pair, on the
\* indexed column for bdc:tile, bdc:tiles and eo:cloud_cover and on the text
\* value of the item metadata path for any other property.
C6_UnknownOperatorRejected ==
    /\ op = "create_query_filter" =>
        IF HasUnknownOperator(args.query.v)
        THEN out.status = "UnsupportedOperator"
        ELSE /\ out.status = "ok"
             /\ Len(out.filters) = NumberOfPairs(args.query.v)
             /\ \A n \in 1..Len(out.filters) :
                 \E c \in 1..Len(args.query.v) :
                    LET column == args.query.v[c].column IN
                    out.filters[n].col =
                        CASE column \in {<<"bdc:tile">>, <<"bdc:tiles">>} -> Col("Tile.name")
                          [] column = <<"eo:cloud_cover">> -> Col("Item.cloud_cover")
                          [] OTHER -> MetaText(column)
    /\ (/\ IsSearch /\ IsNone(args.ids) /\ ~BothCollectionParams
        /\ Truthy(args.query) /\ HasUnknownOperator(args.query.v)) =>
            out.status = "400"

(***************************************************************************)
(* Properties of parse_fields_parameter.                                   *)
(***************************************************************************)
ExpectedExclude(entry) ==
    LET segments == split(Tail(entry), ".") IN
    IF Len(segments) > 1
    THEN [name |-> segments[1], dotted |-> TRUE, path |-> Tail(segments)]
    ELSE [name |-> Tail(entry), dotted |-> FALSE, path |-> <<>>]

ExpectedFields(fields) ==
    IF IsNone(fields) \/ fields.v = <<>> THEN [include |-> <<>>, exclude |-> <<>>]
    ELSE LET entries == split(fields.v, ",")
             minus == SelectSeq(entries, LAMBDA e : e # <<>> /\ e[1] = "-")
         IN [include |-> SelectSeq(entries, LAMBDA e : e = <<>> \/ e[1] # "-"),
             exclude |-> [n \in 1..Len(minus) |-> ExpectedExclude(minus[n])]]

\* C8 (as stated): for a comma-separated string include lists, in order, the
\* entries without a leading '-', and exclude lists, in order, the entries with
\* one, each as its bare name or, when dotted, as the pair (first segment,
\* remaining segments); absent input and the empty string give two empty lists.
C8_FieldsParsed ==
    op = "parse_fields_parameter" =>
        /\ out.include = ExpectedFields(args.fields).include
        /\ out.exclude = ExpectedFields(args.fields).exclude

(***************************************************************************)
(* Properties of make_geojson.                                             *)
(***************************************************************************)
FeatureMade == op = "make_geojson" /\ out.status = "ok"

MetaKeys(i) == IF IsNone(i.item_meta) THEN {} ELSE DOMAIN i.item_meta.v

HasStoragePlatform(i) == <<"storage:", "platform">> \in MetaKeys(i)

HasStorageKey(i) == \E k \in MetaKeys(i) : k[1] = "storage:"

FileRoot == IF "X-Script-Name" \in DOMAIN args.headers
            THEN args.headers["X-Script-Name"]
            ELSE <<"http:", "//localhost:5001">>

\* C9 (as stated): an item with a 'storage:platform' metadata key gets assets
\* whose href is exactly the stored href, nothing prefixed and nothing added,
\* and the storage extension in stac_extensions; an item with no 'storage:'
\* key gets each stored href joined to the resolved file root.
C9_StoredHrefUnmodified ==
    FeatureMade =>
        \A n \in 1..Len(out.features) :
            LET i == args.items[n]
                f == out.features[n]
            IN /\ HasStoragePlatform(i) =>
                    /\ "storage" \in Range(f.stac_extensions)
                    /\ "assets" \in DOMAIN f =>
                        \A key \in DOMAIN f.assets :
                            f.assets[key].href = i.assets.v[key].href
               /\ (~HasStorageKey(i) /\ "assets" \in DOMAIN f) =>
                    \A key \in DOMAIN f.assets :
                        f.assets[key].href = urljoin(FileRoot, i.assets.v[key].href)

\* C9 (amended): every asset href is the stored href with assets_kwargs
\* appended; for an item with any 'storage:' metadata key that is the whole
\* href (no file root prefixed), otherwise it is joined to the resolved file
\* root; the storage extension is listed exactly when the item has a
\* 'storage:platform' key with a non-empty value.
C9_StoredHrefPlusKwargs ==
    FeatureMade =>
        \A n \in 1..Len(out.features) :
            LET i == args.items[n]
                f == out.features[n]
            IN /\ "storage" \in Range(f.stac_extensions)
                    <=> (HasStoragePlatform(i) /\ i.item_meta.v[<<"storage:", "platform">>] # <<>>)
               /\ "assets" \in DOMAIN f =>
                    \A key \in DOMAIN f.assets :
                        f.assets[key].href =
                            IF HasStorageKey(i)
                            THEN i.assets.v[key].href \o args.assets_kwargs
                            ELSE urljoin(FileRoot, i.assets.v[key].href \o args.assets_kwargs)

\* A relative stored href of an item on object storage, left unprefixed, with
\* the query string appended.
C9_Witness ==
    /\ FeatureMade
    /\ Len(out.features) = 1
    /\ HasStoragePlatform(args.items[1])
    /\ args.assets_kwargs # <<>>
    /\ "assets" \in DOMAIN out.features[1]
    /\ args.items[1].assets.v[<<"B1">>].href = <<"B1.tif">>
    /\ out.features[1].assets[<<"B1">>].href = <<"B1.tif", "?access_token=x">>
    /\ "storage" \in Range(out.features[1].stac_extensions)

\* A stored path of an item with no storage metadata, prefixed by the file root.
C9_WitnessJoined ==
    /\ FeatureMade
    /\ Len(out.features) = 1
    /\ ~HasStorageKey(args.items[1])
    /\ args.headers = [k \in {} |-> <<>>]
    /\ "assets" \in DOMAIN out.features[1]
    /\ out.features[1].assets[<<"B1">>].href =
            <<"http:", "//localhost:5001", "/", "Repository", "/", "B1.tif">>

(***************************************************************************)
(* Properties of get_collection_eo.                                        *)
(***************************************************************************)
EoCalled == op = "get_collection_eo"

BandsOfArg == SelectSeq(db.bands, LAMBDA b : b.collection_id = args.collection_id)

WithResolution == SelectSeq(BandsOfArg, LAMBDA b : b.eo_resolutions.t = "list")

\* The largest first resolution entry over the bands that have one; 0 if none.
MaxFirstResolution ==
    IF WithResolution = <<>> THEN 0
    ELSE CHOOSE g \in {WithResolution[n].eo_resolutions.v[1] : n \in 1..Len(WithResolution)} :
            \A n \in 1..Len(WithResolution) : WithResolution[n].eo_resolutions.v[1] <= g

Memoized == {"eo", "quicklook", "crs"}

EntriesOf(f) ==
    CASE f = "eo" -> cache.eo
      [] f = "quicklook" -> cache.quicklook
      [] f = "crs" -> cache.crs

LookupOf(f) ==
    CASE f = "eo" -> op = "lookup_eo"
      [] f = "quicklook" -> op = "lookup_quicklook"
      [] f = "crs" -> op = "lookup_crs"

ComputedFor(f, key) ==
    CASE f = "eo" -> collection_eo(db, key)
      [] f = "quicklook" -> collection_quicklook(db, key)
      [] f = "crs" -> collection_crs(CollectionObject(key, db))

C11_WitnessHit ==
    /\ op = "lookup_quicklook"
    /\ args.key = 1
    /\ HighestKey(cache.quicklook) = LRU_MAXSIZE
    /\ out.hit
    /\ out.queries = <<>>

(***************************************************************************)
(* Properties of get_collections.                                          *)
(***************************************************************************)
IsCollections == op = "get_collections" /\ out.status = "ok"

RowOf(n) == db.collections[out.rows[n]]

Occurrences(seq, x) == Cardinality({n \in 1..Len(seq) : seq[n] = x})

\* C12 (as stated): a returned document carries the datacube extension, once,
\* and a cube:dimensions block with x, y and temporal (and bands when the
\* category is eo) exactly when collection_type is 'cube' or 'datacube'; the
\* two tags give the same content and other types get neither.
C12_CubeAndDatacubeAlike ==
    IsCollections =>
        \A n \in 1..Len(out.collections) :
            LET doc == out.collections[n]
                tagged == RowOf(n).collection_type \in {"cube", "datacube"}
                axes == {"x", "y", "temporal"}
                        \cup (IF RowOf(n).category = "eo" THEN {"bands"} ELSE {})
            IN /\ Occurrences(doc["stac_extensions"], "datacube") = (IF tagged THEN 1 ELSE 0)
               /\ ("cube:dimensions" \in DOMAIN doc) <=> tagged
               /\ ("cube:dimensions" \in DOMAIN doc) => DOMAIN doc["cube:dimensions"] = axes

\* What holds of the code: the extension is declared once for both tags, the
\* dimension block is attached for 'cube' alone.
C12_DimensionsForCubeOnly ==
    IsCollections =>
        \A n \in 1..Len(out.collections) :
            LET doc == out.collections[n]
                tagged == RowOf(n).collection_type \in {"cube", "datacube"}
                axes == {"x", "y", "temporal"}
                        \cup (IF RowOf(n).category = "eo" THEN {"bands"} ELSE {})
            IN /\ Occurrences(doc["stac_extensions"], "datacube") = (IF tagged THEN 1 ELSE 0)
               /\ ("cube:dimensions" \in DOMAIN doc) <=> RowOf(n).collection_type = "cube"
               /\ ("cube:dimensions" \in DOMAIN doc) => DOMAIN doc["cube:dimensions"] = axes

\* A 'datacube' collection returned: extension declared, no dimensions.
C12_Witness ==
    /\ IsCollections
    /\ \E n \in 1..Len(out.collections) :
        /\ RowOf(n).collection_type = "datacube"
        /\ Occurrences(out.collections[n]["stac_extensions"], "datacube") = 1
        /\ "cube:dimensions" \notin DOMAIN out.collections[n]

MarkedDeprecated(row) ==
    /\ ~IsNone(row.metadata_)
    /\ <<"deprecated">> \in DOMAIN row.metadata_.v
    /\ row.metadata_.v[<<"deprecated">>] = TRUE

\* C13 (as stated): 'deprecated' is true exactly when the collection's
\* version_successor is set or its metadata marks it deprecated, and false
\* otherwise; being a function of the collection alone it is the same for
\* every caller, roles and scope.
C13_DeprecatedOfCollection ==
    IsCollections =>
        \A n \in 1..Len(out.collections) :
            out.collections[n]["deprecated"]
                = Bool(RowOf(n).version_successor # NullNum \/ MarkedDeprecated(RowOf(n)))

\* What holds of the code: true exactly when the successor is available and
\* passes the caller's roles constraint or the metadata marks it; otherwise
\* false only when the metadata is a non-empty mapping, else the metadata
\* value itself (None or the empty mapping).
C13_DeprecatedOfVisibleSuccessor ==
    IsCollections =>
        \A n \in 1..Len(out.collections) :
            LET row == RowOf(n)
                seen == /\ row.version_successor # NullNum
                        /\ db.collections[row.version_successor].is_available
                        /\ PassesRoles(RolesOf(args), db.collections[row.version_successor])
                value == out.collections[n]["deprecated"]
            IN /\ value = Bool(TRUE) <=> (seen \/ MarkedDeprecated(row))
               /\ ~(seen \/ MarkedDeprecated(row)) =>
                    value = (IF IsNone(row.metadata_) \/ DOMAIN row.metadata_.v = {}
                             THEN row.metadata_ ELSE Bool(FALSE))

\* S2-1, whose successor S2-2 is private, returned to a caller without roles.
C13_Witness ==
    /\ IsCollections
    /\ RolesOf(args) = <<>>
    /\ \E n \in 1..Len(out.collections) :
        /\ out.rows[n] = 1
        /\ ~db.collections[2].is_public
        /\ out.collections[n]["deprecated"] = None

HasInfix(s, t) == \E k \in 0..(Len(s) - Len(t)) : SubSeq(s, k + 1, k + Len(t)) = t

VersionRels == {"successor-version", "predecessor-version"}

\* Available, and public or named in the roles.
SeenBy(roles, c) == c.is_available /\ (c.is_public \/ c.identifier \in Range(roles))

Referenced(row, rel) ==
    IF rel = "successor-version" THEN row.version_successor ELSE row.version_predecessor

C16_WitnessLinked ==
    /\ IsCollections
    /\ Truthy(args.collection_id)
    /\ ~db.collections[2].is_public
    /\ out.rows = <<1>>
    /\ \E k \in 1..Len(out.collections[1]["links"]) :
        /\ out.collections[1]["links"][k].rel = "successor-version"
        /\ out.collections[1]["links"][k].title = db.collections[2].title

(***************************************************************************)
(* Properties of the items pipeline.                                       *)
(***************************************************************************)
IsPipeline == op = "items_pipeline"

ExcludedNames == {out.exclude[n].name : n \in 1..Len(out.exclude)}

\* C14 (as stated): for every exclude list handed to get_collection_items and
\* to make_geojson the pipeline completes without failure and no finished
\* feature has a top-level key the list names; with 'assets' excluded the
\* search leaves the assets column out and the features have no 'assets' key.
C14_ExcludedKeysAbsent ==
    IsPipeline =>
        /\ out.status = "ok"
        /\ Len(out.features) = Len(out.rows)
        /\ \A n \in 1..Len(out.features) :
            \A k \in DOMAIN out.features[n] : <<k>> \notin ExcludedNames
        /\ <<"assets">> \in ExcludedNames => ~out.assets_column

\* What holds of the code: the pipeline completes when no row is found, or
\* when the list neither names 'assets' bare nor has a dotted entry; then
\* the named keys are absent.  Otherwise it fails on the first row.
C14_FailsOnAssetsOrDotted ==
    IsPipeline =>
        LET bare_assets == \E n \in 1..Len(out.exclude) :
                              ~out.exclude[n].dotted /\ out.exclude[n].name = <<"assets">>
            dotted == \E n \in 1..Len(out.exclude) : out.exclude[n].dotted
        IN /\ out.assets_column <=> ~bare_assets
           /\ out.status \in {"ok", "AttributeError", "TypeError"}
           /\ out.status = "ok" <=> (out.rows = <<>> \/ (~bare_assets /\ ~dotted))
           /\ out.status = "AttributeError" <=> (out.rows # <<>> /\ bare_assets)
           /\ out.status = "ok" =>
                /\ Len(out.features) = Len(out.rows)
                /\ \A n \in 1..Len(out.features) :
                    \A k \in DOMAIN out.features[n] : <<k>> \notin ExcludedNames

\* 'assets' excluded and a row found: the pipeline fails.
C14_Witness ==
    /\ IsPipeline
    /\ <<"assets">> \in ExcludedNames
    /\ ~out.assets_column
    /\ out.rows # <<>>
    /\ out.status = "AttributeError"

(***************************************************************************)
(* The temporal predicates as interval tests.                              *)
(***************************************************************************)
Intervals == {r \in (0..(MaxTime + 1)) \X (0..(MaxTime + 1)) : r[1] <= r[2]}

\* The temporal predicate of the answered query holds of the interval.
Holds(r) == Eval(out.where[Len(out.where)], RowWithInterval(r[1], r[2]))

OpenStart(t2) == args.datetime.v \in {<<"..", "/", Ts(t2)>>, <<"/", Ts(t2)>>}
OpenEnd(t1) == args.datetime.v \in {<<Ts(t1), "/", "..">>, <<Ts(t1), "/">>}
Closed(t1, t2) == args.datetime.v = <<Ts(t1), "/", Ts(t2)>>

\* C15: over item intervals with start <= end, the closed-range predicate
\* for T1 <= T2 is the overlap test start <= T2 and end >= T1, the open-start
\* predicate is start <= T2 and the open-end predicate is end >= T1.  For a
\* reversed range (T1 > T2) the closed-range predicate is start < T1 and
\* end > T2: it holds wherever the overlap test does and also of every
\* interval lying strictly between T2 and T1, where the overlap test fails.
C15_IntervalTests ==
    HasTemporalFilter =>
        \A t1, t2 \in Times :
            /\ OpenStart(t2) => \A r \in Intervals : Holds(r) <=> r[1] <= t2
            /\ OpenEnd(t1) => \A r \in Intervals : Holds(r) <=> r[2] >= t1
            /\ (Closed(t1, t2) /\ t1 <= t2) =>
                    \A r \in Intervals : Holds(r) <=> (r[1] <= t2 /\ r[2] >= t1)
            /\ (Closed(t1, t2) /\ t1 > t2) =>
                    /\ \A r \in Intervals : Holds(r) <=> (r[1] < t1 /\ r[2] > t2)
                    /\ \A r \in Intervals : (r[1] <= t2 /\ r[2] >= t1) => Holds(r)
                    /\ \A r \in Intervals :
                            (t2 < r[1] /\ r[2] < t1) =>
                                Holds(r) /\ ~(r[1] <= t2 /\ r[2] >= t1)

\* A reversed range answered with an item the overlap test rejects.
C15_Witness ==
    /\ HasTemporalFilter
    /\ out.status = "ok"
    /\ \E t1, t2 \in Times :
        /\ Closed(t1, t2)
        /\ t1 > t2
        /\ \E i \in Range(out.result.items) :
            /\ db.items[i].start_date <= db.items[i].end_date
            /\ ~(db.items[i].start_date <= t2 /\ db.items[i].end_date >= t1)

\* An open start answered with an item that starts before T2 and ends after.
C15_WitnessOpenStart ==
    /\ HasTemporalFilter
    /\ out.status = "ok"
    /\ \E t2 \in Times :
        /\ OpenStart(t2)
        /\ \E i \in Range(out.result.items) :
            db.items[i].start_date <= t2 /\ db.items[i].end_date > t2

=============================================================================
